---- MODULE Spec2Model ----
(***************************************************************************)
(* Dynamic 2-core solver (yancouto/phd, crate dynamic_2core).              *)
(*                                                                         *)
(* Layers, leaves first:                                                   *)
(*   - ordered lists of elements with stable integer handles (trait Lists, *)
(*     in the list semantics of SlowLists / SlowBst);                      *)
(*   - the Euler tour tree of euler_tour_tree.rs;                          *)
(*   - the link cut tree of link_cut_tree.rs;                              *)
(*   - the HDT solver of dynamic_2core.rs.                                 *)
(* A failed assert!/expect of the code clears the flag `ok` of the layer   *)
(* (sets epanic for the stand-alone Euler tour tree).                     *)
(***************************************************************************)
EXTENDS Integers, Sequences, FiniteSets, TLC

\* ------------------------------------------------------------------ bounds
\* Number of vertices of the stand-alone Euler tour tree.
EttN == 3
\* Number of successful connect calls the stand-alone Euler tour tree accepts.
MaxConnects == 3
\* Number of vertices of the solver.
N == 4
\* Number of edge ids the solver hands out (successful add_edge calls).
MaxEdgeIds == 4
\* Number of vertices of the solver over Treaps.
FastN == 3
\* Number of edge ids the solver over Treaps hands out.
MaxFastIds == 3
\* Number of vertices of the solver on two triangles.
LevelsN == 6
\* Number of edge ids the solver on two triangles hands out.
MaxLevelsIds == 7
\* Number of vertices of the stand-alone link cut tree.
LctN == 4

\* Number of vertices of the link cut tree over Treaps.
LctTreapsN == 3

\* Number of calls made on the link cut tree over Treaps.
MaxLctTreapsCalls == 4
\* Number of elements the list structures create.
ListN == 3
\* Largest priority a treap node draws.
MaxPriority == 3
\* Number of edge ids of the smaller solver specification that the add-then-remove
\* round trip is checked under.
MaxRoundTripIds == 3

\* ------------------------------------------------------------- list layer
\* usize::MAX; the largest integer of the model checker stands for 2^64 - 1, which
\* no handle, level or counter of the model reaches.
USIZE_MAX == 2147483647

\* Lists::EMPTY, the handle of no element.
EMPTY == USIZE_MAX

Range(s) == {s[i] : i \in DOMAIN s}
Min2(a, b) == IF a < b THEN a ELSE b
Max2(a, b) == IF a < b THEN b ELSE a
\* (u, v) with u < v, as add_edge and remove_edge order the endpoints.
Norm(u, v) == <<Min2(u, v), Max2(u, v)>>

\* A Lists value `ls` is the set of its non-empty lists, each a sequence of handles.
list(ls, u) == IF u = EMPTY THEN <<>> ELSE CHOOSE s \in ls : u \in Range(s)

root(ls, u) == IF u = EMPTY THEN EMPTY ELSE list(ls, u)[1]

order(ls, u) ==
    IF u = EMPTY THEN 0
    ELSE LET s == list(ls, u) IN (CHOOSE i \in DOMAIN s : s[i] = u) - 1

len(ls, u) == IF u = EMPTY THEN 0 ELSE Len(list(ls, u))

find_kth(ls, u, k) ==
    LET s == list(ls, u) IN IF k >= 0 /\ k < Len(s) THEN s[k + 1] ELSE EMPTY

first(ls, u) == find_kth(ls, u, 0)

is_first(ls, u) == u = first(ls, u)

is_last(ls, u) == order(ls, u) = len(ls, u) - 1

prev(ls, u) ==
    LET k == order(ls, u) IN IF k = 0 THEN EMPTY ELSE find_kth(ls, u, k - 1)

on_same_list(ls, u, v) == root(ls, u) = root(ls, v)

is_root(ls, u) == root(ls, u) = u

HeadOrEmpty(s) == IF s = <<>> THEN EMPTY ELSE s[1]

\* concat: the list of u followed by the list of v; EMPTY is the identity and two
\* handles of one list are left alone.  Returns the lists and the new root.
concat(ls, u, v) ==
    IF v = EMPTY \/ (u # EMPTY /\ on_same_list(ls, u, v)) THEN [ls |-> ls, root |-> root(ls, u)]
    ELSE IF u = EMPTY THEN [ls |-> ls, root |-> root(ls, v)]
    ELSE LET su == list(ls, u)
             sv == list(ls, v)
         IN [ls |-> (ls \ {su, sv}) \cup {su \o sv}, root |-> su[1]]

\* Operators that use an intermediate result several times take it as a
\* parameter (split_seq, link_joined, ...): one operator per step of the code.

\* split_lr on the list s: s cut into [0,l), [l,r), [r,len).
split_seq(ls, s, l, r) ==
    LET gl == SubSeq(s, 1, l)
        gm == SubSeq(s, l + 1, r)
        gr == SubSeq(s, r + 1, Len(s))
    IN [ls |-> (ls \ {s}) \cup ({gl, gm, gr} \ {<<>>}),
        l  |-> HeadOrEmpty(gl),
        m  |-> HeadOrEmpty(gm),
        r  |-> HeadOrEmpty(gr)]

\* split_lr: the list of u cut into [0,l), [l,r), [r,len); returns the three roots.
split_lr(ls, u, l, r) ==
    IF u = EMPTY THEN [ls |-> ls, l |-> EMPTY, m |-> EMPTY, r |-> EMPTY]
    ELSE split_seq(ls, list(ls, u), l, r)

\* a.concat(v), a the result [ls, root] of an earlier concat.
concat_onto(c, v) == concat(c.ls, c.root, v)

RECURSIVE Rev(_)
Rev(s) == IF s = <<>> THEN <<>> ELSE Append(Rev(Tail(s)), Head(s))

reverse(ls, u) == (ls \ {list(ls, u)}) \cup {Rev(list(ls, u))}

\* ------------------------------------------------------- Euler tour tree
\* An Euler tour tree value t: t.ls the lists of its elements, t.d the payload
\* of every element ever created (element h is t.d[h+1]); a payload is
\* ETData::Node(data) or ETData::Edge{data, other}.
ETNode(data) == [node |-> TRUE, data |-> data, other |-> EMPTY]
ETEdge(data, other) == [node |-> FALSE, data |-> data, other |-> other]

ett_data(t, h) == t.d[h + 1]

\* BST::new(data): a fresh element, alone in its list.
ett_new_elem(t, payload) ==
    [t |-> [ls |-> t.ls \cup {<<Len(t.d)>>}, d |-> Append(t.d, payload)], h |-> Len(t.d)]

ett_is_connected(t, u, v) == on_same_list(t.ls, u, v)

ett_tree_size_rounding(t, u) == (len(t.ls, root(t.ls, u)) + 1) \div 3

ett_tree_size(t, u) == (len(t.ls, root(t.ls, u)) + 2) \div 3

\* ETAggregated::subtree_size over the whole list of u: its Node elements.
ett_subtree_size(t, u) ==
    Cardinality({i \in DOMAIN list(t.ls, u) : ett_data(t, list(t.ls, u)[i]).node})

\* reroot_raw after its split: (bef, aft, _) = (sp.l, sp.m, sp.r); aft.concat(&bef).
reroot_joined(sp) == concat(sp.ls, sp.m, sp.l).ls

\* reroot_raw joining the halves in their old order, bef.concat(&aft).
reroot_raw_unswapped(t, node) ==
    IF is_first(t.ls, node) THEN t
    ELSE [t EXCEPT !.ls = concat(split_lr(t.ls, node, order(t.ls, node), len(t.ls, node)).ls,
                                 split_lr(t.ls, node, order(t.ls, node), len(t.ls, node)).l,
                                 split_lr(t.ls, node, order(t.ls, node), len(t.ls, node)).m).ls]

reroot_raw(t, node) ==
    IF is_first(t.ls, node) THEN t
    ELSE [t EXCEPT !.ls = reroot_joined(split_lr(t.ls, node, order(t.ls, node), len(t.ls, node)))]

link_joined_drops_tail(sp, w, uw, wu) ==
    concat_onto(concat_onto(concat(sp.ls, sp.m, uw), w), wu).ls

\* The concats of line 298 with wu after after_u: "AAA u uw w CCC BBB wu".
link_joined_closes_last(sp, w, uw, wu) ==
    concat_onto(concat_onto(concat_onto(concat(sp.ls, sp.m, uw), w), sp.r), wu).ls

\* link_root_raw after its split: (_, until_u, after_u) = (sp.l, sp.m, sp.r);
\* until_u.concat(uw).concat(w).concat(wu).concat(&after_u).
link_joined(sp, w, uw, wu) ==
    concat_onto(concat_onto(concat_onto(concat(sp.ls, sp.m, uw), w), wu), sp.r).ls

\* "AAA u BBB" and "w CCC" become "AAA u uw w CCC wu BBB".
link_root_raw(t, u, w, uw, wu) ==
    [t EXCEPT !.ls = link_joined(split_lr(t.ls, u, 0, order(t.ls, u) + 1), w, uw, wu)]

\* link_root once its two half-edges exist: nuw is the result of the second
\* BST::new, so uw is nuw.h and wu, created just before it, is nuw.h - 1.
link_root_made(nuw, node_u, root_w, ok) ==
    [t   |-> link_root_raw([nuw.t EXCEPT !.d[nuw.h].other = nuw.h],
                           node_u, root_w, nuw.h, nuw.h - 1),
     ref |-> <<nuw.h, nuw.h - 1>>,
     ok  |-> ok]

link_root(t, node_u, root_w, uw_data, wu_data) ==
    link_root_made(
        ett_new_elem(ett_new_elem(t, ETEdge(wu_data, EMPTY)).t, ETEdge(uw_data, Len(t.d))),
        node_u, root_w,
        ~on_same_list(t.ls, node_u, root_w) /\ is_root(t.ls, root_w))

NoRef == <<EMPTY, EMPTY>>

\* Some(edge_ref) of connect.
connect_some(lr) == [t |-> lr.t, some |-> TRUE, ref |-> lr.ref, ok |-> lr.ok]

ett_connect_reroots_first(t, u, w, uw_data, wu_data) ==
    IF on_same_list(t.ls, u, w)
    THEN [t |-> reroot_raw(t, w), some |-> FALSE, ref |-> NoRef, ok |-> TRUE]
    ELSE connect_some(link_root(reroot_raw(t, w), u, w, uw_data, wu_data))

\* NodeRef::connect: None (some = FALSE) when already connected.
ett_connect(t, u, w, uw_data, wu_data) ==
    IF on_same_list(t.ls, u, w) THEN [t |-> t, some |-> FALSE, ref |-> NoRef, ok |-> TRUE]
    ELSE connect_some(link_root(reroot_raw(t, w), u, w, uw_data, wu_data))

disconnect_joined_swapped(t, sp2, c, ok) ==
    [t |-> [t EXCEPT !.ls = c.ls], a |-> first(c.ls, sp2.m), b |-> first(c.ls, c.root), ok |-> ok]

\* disconnect_raw, line 319: (left.concat(&right).first(), middle.first()); c is
\* the result of the concat, sp2.m the middle without the two half-edges.
disconnect_joined(t, sp2, c, ok) ==
    [t |-> [t EXCEPT !.ls = c.ls], a |-> first(c.ls, c.root), b |-> first(c.ls, sp2.m), ok |-> ok]

disconnect_middle_keeps_half_edges(t, edge, other_e, sp, sp2) ==
    disconnect_joined(t, [sp2 EXCEPT !.m = sp.m], concat(sp.ls, sp.l, sp.r), TRUE)

\* disconnect_raw, lines 317-319: sp2 is the split of the middle part.
disconnect_middle(t, edge, other_e, sp, sp2) ==
    disconnect_joined(t, sp2, concat(sp2.ls, sp.l, sp.r),
                      /\ len(sp2.ls, root(sp2.ls, edge)) = 1
                      /\ len(sp2.ls, root(sp2.ls, other_e)) = 1)

\* disconnect_raw, line 316: sp is (left, middle, right).
disconnect_split(t, edge, other_e, sp) ==
    disconnect_middle(t, edge, other_e, sp, split_lr(sp.ls, sp.m, 1, len(sp.ls, sp.m) - 1))

\* disconnect_raw(edge, Some(other_e)): the roots of the two trees.
disconnect_raw(t, edge, other_e) ==
    disconnect_split(t, edge, other_e,
                     split_lr(t.ls, edge,
                              Min2(order(t.ls, edge), order(t.ls, other_e)),
                              Max2(order(t.ls, edge), order(t.ls, other_e)) + 1))

\* EdgeRef::disconnect: self.0 is the uw half-edge, self.1 the wu half-edge.
ett_disconnect(t, ref) == disconnect_raw(t, ref[1], ref[2])

\* ---------------------------------------------------------- link cut tree
\* An LCT is [ls, parent]: ls the preferred paths (lists of vertices, nearest
\* the root first), parent[u + 1] the vertex the path headed by u hangs from.

\* vec![value; n]
RECURSIVE Repeat(_, _)
Repeat(value, n) == IF n = 0 THEN <<>> ELSE Append(Repeat(value, n - 1), value)

lct_new(n) == [ls |-> {<<i>> : i \in 0..(n - 1)}, parent |-> Repeat(EMPTY, n)]

\* The loop of LCT::access; yields the structure, the value returned (last_u)
\* and whether assert!(is_last(u)) held throughout.
RECURSIVE access_loop(_, _, _, _, _)

\* access, lines 53-54: f is first(u); the path now hangs from parent[f].
access_next(p1, u, ok, ls, f) ==
    access_loop([ls |-> ls, parent |-> [p1 EXCEPT ![f + 1] = EMPTY]], p1[f + 1], f, u, ok)

\* access, lines 47-51: sp is the split (_, _, after) = (sp.l, sp.m, sp.r).
access_split(lc, u, prev_topmost, ok, sp) ==
    access_next(IF sp.r # EMPTY
                THEN [lc.parent EXCEPT ![first(sp.ls, sp.r) + 1] = u]
                ELSE lc.parent,
                u, ok /\ is_last(sp.ls, u),
                concat(sp.ls, u, prev_topmost).ls,
                first(concat(sp.ls, u, prev_topmost).ls, u))

access_loop(lc, u, prev_topmost, last_u, ok) ==
    IF u = EMPTY THEN [lc |-> lc, ret |-> last_u, ok |-> ok]
    ELSE access_split(lc, u, prev_topmost, ok, split_lr(lc.ls, u, 0, order(lc.ls, u) + 1))

access(lc, u) == access_loop(lc, u, EMPTY, u, TRUE)

\* a is the result of access(u) in root, reroot, cut and kth_in_path_from_root.
root_accessed(a, u) == [lc |-> a.lc, ret |-> first(a.lc.ls, u), ok |-> a.ok]

lct_root(lc, u) == root_accessed(access(lc, u), u)

reroot_accessed(a, u) == [lc |-> [a.lc EXCEPT !.ls = reverse(a.lc.ls, u)], ok |-> a.ok]

\* reroot that reverses the path of u as it stands, without access(u).
lct_reroot_no_access(lc, u) == reroot_accessed([lc |-> lc, ret |-> u, ok |-> TRUE], u)

lct_reroot(lc, u) == reroot_accessed(access(lc, u), u)

\* link, lines 84-86: rr is the result of reroot(v).
link_rerooted(rr, u, v, ok) ==
    [lc |-> [rr.lc EXCEPT !.parent[v + 1] = u], ret |-> TRUE, ok |-> ok /\ rr.ok]

\* link that hangs v from u without making it the root of its tree.
link_roots_no_reroot(ru, rv, u, v) ==
    IF ru.ret = rv.ret
    THEN [lc |-> rv.lc, ret |-> FALSE, ok |-> ru.ok /\ rv.ok]
    ELSE link_rerooted([lc |-> rv.lc, ok |-> TRUE], u, v, ru.ok /\ rv.ok)

\* link, line 81: ru and rv are the results of root(u) and root(v).
link_roots(ru, rv, u, v) ==
    IF ru.ret = rv.ret
    THEN [lc |-> rv.lc, ret |-> FALSE, ok |-> ru.ok /\ rv.ok]
    ELSE link_rerooted(lct_reroot(rv.lc, v), u, v, ru.ok /\ rv.ok)

link_root_u(ru, u, v) == link_roots(ru, lct_root(ru.lc, v), u, v)

lct_link(lc, u, v) == link_root_u(lct_root(lc, u), u, v)

\* cut that returns the parent and leaves the path whole.
cut_accessed_keeps_path(a, u) ==
    IF is_first(a.lc.ls, u) THEN [lc |-> a.lc, ret |-> EMPTY, ok |-> a.ok]
    ELSE [lc |-> a.lc, ret |-> prev(a.lc.ls, u), ok |-> a.ok]

cut_accessed(a, u) ==
    IF is_first(a.lc.ls, u) THEN [lc |-> a.lc, ret |-> EMPTY, ok |-> a.ok]
    ELSE [lc |-> [a.lc EXCEPT !.ls = split_lr(a.lc.ls, u, 0, order(a.lc.ls, u)).ls],
          ret |-> prev(a.lc.ls, u), ok |-> a.ok]

\* LinkCutTree::cut: the parent of u, EMPTY for None.
lct_cut(lc, u) == cut_accessed(access(lc, u), u)

\* lca that does not compare the two roots.
lca_accessed_unchecked(ru, av, v, ok) == [lc |-> av.lc, ret |-> av.ret, ok |-> ok /\ av.ok]

lca_accessed(ru, av, v, ok) ==
    [lc |-> av.lc, ret |-> IF ru = first(av.lc.ls, v) THEN av.ret ELSE EMPTY, ok |-> ok /\ av.ok]

lca_accessed_u(au, u, v) == lca_accessed(first(au.lc.ls, u), access(au.lc, v), v, au.ok)

\* LinkCutTree::lca: EMPTY for None.
lct_lca(lc, u, v) == lca_accessed_u(access(lc, u), u, v)

kth_accessed(a, u, k) == [lc |-> a.lc, ret |-> find_kth(a.lc.ls, u, k), ok |-> a.ok]

\* The k-th vertex (0 the root) of the path from the root to u.
kth_in_path_from_root(lc, u, k) == kth_accessed(access(lc, u), u, k)

\* ------------------------------------------- naive link cut tree (SlowLCT)
\* A SlowLCT is its parent array: parent[u + 1] the parent of u, u itself for
\* a root.

\* (0..n).collect()
RECURSIVE Iota(_)
Iota(n) == IF n = 0 THEN <<>> ELSE Append(Iota(n - 1), n - 1)

slow_new(n) == Iota(n)

\* SlowLCT::path_from_root: the vertices from the root down to u.
RECURSIVE path_from_root(_, _)
path_from_root(parent, u) ==
    IF parent[u + 1] = u THEN <<u>> ELSE Append(path_from_root(parent, parent[u + 1]), u)

RECURSIVE slow_root(_, _)
slow_root(parent, u) == IF parent[u + 1] = u THEN u ELSE slow_root(parent, parent[u + 1])

\* reroot, lines 54-55: rerooted is the array after the recursive call on p.
slow_reroot_set(rerooted, p, u) == [rerooted EXCEPT ![p + 1] = u, ![u + 1] = u]

RECURSIVE slow_reroot(_, _)
slow_reroot(parent, u) ==
    IF parent[u + 1] # u
    THEN slow_reroot_set(slow_reroot(parent, parent[u + 1]), parent[u + 1], u)
    ELSE parent

\* SlowLCT::link: [parent, ret].
slow_link(parent, u, v) ==
    IF slow_root(parent, u) = slow_root(parent, v) THEN [parent |-> parent, ret |-> FALSE]
    ELSE [parent |-> [slow_reroot(parent, v) EXCEPT ![v + 1] = u], ret |-> TRUE]

\* SlowLCT::cut: [parent, ret], ret EMPTY for None.
slow_cut(parent, u) ==
    [parent |-> [parent EXCEPT ![u + 1] = u],
     ret    |-> IF u # parent[u + 1] THEN parent[u + 1] ELSE EMPTY]

\* zip, take_while(a == b), last: the last vertex of the common prefix of pu and pv.
RECURSIVE last_common(_, _, _)
last_common(pu, pv, k) ==
    IF k < Len(pu) /\ k < Len(pv) /\ pu[k + 1] = pv[k + 1] THEN last_common(pu, pv, k + 1)
    ELSE pu[k]

slow_lca_paths(pu, pv) == IF pu[1] # pv[1] THEN EMPTY ELSE last_common(pu, pv, 1)

\* SlowLCT::lca: EMPTY for None.
slow_lca(parent, u, v) == slow_lca_paths(path_from_root(parent, u), path_from_root(parent, v))

\* ------------------------------------------- aggregate of the list tests
\* AggDigit: the decimal number spelled by the digits of a range.
DigitDefault == [number |-> 0, size |-> 0]

DigitFrom(data) == [number |-> data, size |-> 1]

DigitMerge(a, right) ==
  [number |-> a.number * (10 ^ right.size) + right.number,
   size |-> a.size + right.size]

RECURSIVE digit_reversed(_, _, _)
digit_reversed(number, size, new_number) ==
  IF size = 0 THEN new_number
  ELSE digit_reversed(number \div 10, size - 1, new_number * 10 + (number % 10))

DigitReverse(a) == [number |-> digit_reversed(a.number, a.size, 0), size |-> a.size]

reverseif(a, flipped) == IF flipped THEN DigitReverse(a) ELSE a

\* ------------------------------------------------- SlowLists with data
\* The lists `ls` with the data `d` of every element; `ok` is cleared by a failed
\* assert of split_lr.
slow_lists_new == [ls |-> {}, d |-> <<>>, ok |-> TRUE]

slow_lists_create(s, data) ==
  [s EXCEPT !.ls = @ \cup {<<Len(s.d)>>}, !.d = Append(@, data)]

slow_lists_mutate_data(s, u, data) == [s EXCEPT !.d[u + 1] = data]

RECURSIVE slow_lists_fold(_, _, _, _, _, _)
slow_lists_fold(d, s, i, l, r, agg) ==
  IF i > Len(s) THEN agg
  ELSE slow_lists_fold(d, s, i + 1, l, r,
                       IF i - 1 >= l /\ i - 1 < r
                       THEN DigitMerge(agg, DigitFrom(d[s[i] + 1])) ELSE agg)

slow_lists_range_agg_lr(s, u, l, r) ==
  slow_lists_fold(s.d, list(s.ls, u), 1, l, r, DigitDefault)

slow_lists_total_agg(s, u) == slow_lists_range_agg_lr(s, u, 0, len(s.ls, u))

slow_lists_concat(s, u, v) == [s EXCEPT !.ls = concat(s.ls, u, v).ls]

slow_lists_split_lr(s, u, l, r) ==
  IF u # EMPTY /\ ~(l <= r /\ r <= len(s.ls, u)) THEN [s EXCEPT !.ok = FALSE]
  ELSE [s EXCEPT !.ls = split_lr(s.ls, u, l, r).ls]

slow_lists_reverse(s, u) == [s EXCEPT !.ls = reverse(s.ls, u)]

\* ------------------------------------------------------------------ Treaps
\* A treap is the vector `nodes`; handle u is nodes[u + 1].
TreapNode(data, priority) ==
  [parent |-> EMPTY, child |-> <<EMPTY, EMPTY>>, flip_subtree |-> FALSE,
   data |-> data, ag_data |-> DigitFrom(data), size |-> 1, priority |-> priority]

treap_flip(n, flipped) == n.flip_subtree # flipped

treap_child(t, u, flipped) ==
  IF u = EMPTY THEN <<EMPTY, EMPTY>>
  ELSE IF treap_flip(t[u + 1], flipped) THEN <<t[u + 1].child[2], t[u + 1].child[1]>>
  ELSE t[u + 1].child

\* In the code size - qr is an unsigned subtraction; callers keep qr <= size.
treap_range(t, u, ql, qr) ==
  IF u = EMPTY THEN <<ql, qr>>
  ELSE IF t[u + 1].flip_subtree THEN <<t[u + 1].size - qr, t[u + 1].size - ql>>
  ELSE <<ql, qr>>

treap_size(t, u) == IF u = EMPTY THEN 0 ELSE t[u + 1].size

treap_parent(t, u) == IF u = EMPTY THEN EMPTY ELSE t[u + 1].parent

treap_ag_data(t, u, flipped) ==
  IF u = EMPTY THEN DigitDefault
  ELSE reverseif(t[u + 1].ag_data, treap_flip(t[u + 1], flipped))

recalc_children(t, u, f, lr) ==
  [t EXCEPT ![u + 1].size = treap_size(t, lr[1]) + 1 + treap_size(t, lr[2]),
            ![u + 1].ag_data =
               reverseif(DigitMerge(DigitMerge(treap_ag_data(t, lr[1], f),
                                               DigitFrom(t[u + 1].data)),
                                    treap_ag_data(t, lr[2], f)), f)]

treap_recalc(t, u) ==
  IF u = EMPTY THEN t
  ELSE recalc_children(t, u, t[u + 1].flip_subtree, treap_child(t, u, FALSE))

set_parent(t, u, p) == IF u = EMPTY THEN t ELSE [t EXCEPT ![u + 1].parent = p]

set_child(t, u, li, c) == [t EXCEPT ![u + 1].child[li + 1] = c]

change_child(t, u, new_l, li, old_l) ==
  [t |-> treap_recalc(set_parent(set_child(set_parent(t, old_l, EMPTY), u, li, new_l),
                                 new_l, u), u),
   ret |-> old_l]

change_side(t, u, new_l, li) == change_child(t, u, new_l, li, t[u + 1].child[li + 1])

treap_change_left(t, u, new_l, flipped) ==
  IF u = EMPTY THEN [t |-> t, ret |-> EMPTY]
  ELSE change_side(t, u, new_l, IF treap_flip(t[u + 1], flipped) THEN 1 ELSE 0)

treap_change_right(t, u, new_r, flipped) == treap_change_left(t, u, new_r, ~flipped)

toggle_flip(t, c) ==
  IF c = EMPTY THEN t ELSE [t EXCEPT ![c + 1].flip_subtree = ~@]

flip_pushed(t, u) == toggle_flip(toggle_flip(t, t[u + 1].child[1]), t[u + 1].child[2])

treap_unlaze_flip(t, u) ==
  IF u = EMPTY \/ ~t[u + 1].flip_subtree THEN t
  ELSE flip_pushed([t EXCEPT ![u + 1].flip_subtree = FALSE,
                             ![u + 1].ag_data = DigitReverse(@),
                             ![u + 1].child = <<@[2], @[1]>>], u)

RECURSIVE treap_root(_, _)
treap_root(t, u) ==
  IF treap_parent(t, u) = EMPTY THEN u ELSE treap_root(t, treap_parent(t, u))

RECURSIVE concat_inner(_, _, _)
concat_right_set(c, u) == [t |-> treap_change_right(c.t, u, c.ret, FALSE).t, ret |-> u]
concat_right(d, u, v) == concat_right_set(concat_inner(d.t, d.ret, v), u)
concat_left_set(c, v) == [t |-> treap_change_left(c.t, v, c.ret, FALSE).t, ret |-> v]
concat_left(d, u, v) == concat_left_set(concat_inner(d.t, u, d.ret), v)

concat_inner(t, u, v) ==
  IF u = EMPTY THEN [t |-> t, ret |-> v]
  ELSE IF v = EMPTY THEN [t |-> t, ret |-> u]
  ELSE IF t[u + 1].priority > t[v + 1].priority
       THEN concat_right(treap_change_right(treap_unlaze_flip(t, u), u, EMPTY, FALSE), u, v)
       ELSE concat_left(treap_change_left(treap_unlaze_flip(t, v), v, EMPTY, FALSE), u, v)

concat_roots(t, u, v) == IF u = v THEN [t |-> t, ret |-> u] ELSE concat_inner(t, u, v)

treap_concat(t, u, v) == concat_roots(t, treap_root(t, u), treap_root(t, v))

RECURSIVE split_k(_, _, _, _)
split_left_joined(s, c) == [t |-> c.t, a |-> s.a, b |-> c.ret]
split_left_done(s, u) == split_left_joined(s, treap_concat(s.t, s.b, u))
split_left(t, u, k, flipped, l) ==
  split_left_done(split_k(t, l, k, treap_flip(t[u + 1], flipped)), u)
split_right_joined(s, c) == [t |-> c.t, a |-> c.ret, b |-> s.b]
split_right_done(s, u) == split_right_joined(s, treap_concat(s.t, u, s.a))
split_right(t, u, k, flipped, r) ==
  split_right_done(split_k(t, r, k, treap_flip(t[u + 1], flipped)), u)

split_k_children(t, u, k, flipped, lr) ==
  IF k <= treap_size(t, lr[1])
  THEN split_left(treap_change_left(t, u, EMPTY, flipped).t, u, k, flipped, lr[1])
  ELSE split_right(treap_change_right(t, u, EMPTY, flipped).t, u,
                   k - treap_size(t, lr[1]) - 1, flipped, lr[2])

split_k(t, u, k, flipped) ==
  IF u = EMPTY \/ k = 0 THEN [t |-> t, a |-> EMPTY, b |-> u]
  ELSE split_k_children(t, u, k, flipped, treap_child(t, u, flipped))

RECURSIVE range_agg_lr_inner(_, _, _, _)
range_agg_right(t, u, ql, qr, r, szl, ag) ==
  reverseif(IF qr > szl + 1
            THEN DigitMerge(ag, range_agg_lr_inner(t, r, Max2(ql - (szl + 1), 0),
                                                   qr - (szl + 1)))
            ELSE ag,
            t[u + 1].flip_subtree)

range_agg_middle(t, u, ql, qr, r, szl, ag) ==
  range_agg_right(t, u, ql, qr, r, szl,
                  IF ql <= szl /\ qr > szl THEN DigitMerge(ag, DigitFrom(t[u + 1].data))
                  ELSE ag)

range_agg_left(t, u, ql, qr, l, r, szl) ==
  range_agg_middle(t, u, ql, qr, r, szl,
                   IF ql < szl THEN range_agg_lr_inner(t, l, ql, Min2(qr, szl))
                   ELSE DigitDefault)

range_agg_ranged(t, u, q) ==
  range_agg_left(t, u, q[1], q[2], t[u + 1].child[1], t[u + 1].child[2],
                 treap_size(t, t[u + 1].child[1]))

range_agg_lr_inner(t, u, ql, qr) ==
  IF u = EMPTY \/ ql >= qr THEN DigitDefault
  ELSE IF ql = 0 /\ qr >= treap_size(t, u) THEN treap_ag_data(t, u, FALSE)
  ELSE range_agg_ranged(t, u, treap_range(t, u, ql, qr))

treap_create_one_based(t, data, priority) ==
  [t |-> Append(t, TreapNode(data, priority)), ret |-> Len(t) + 1]

treap_create(t, data, priority) ==
  [t |-> Append(t, TreapNode(data, priority)), ret |-> Len(t)]

treap_total_size(t) == Len(t)

treap_data(t, u) == t[u + 1].data

RECURSIVE recalc_up(_, _)
recalc_up(t, u) ==
  IF u = EMPTY THEN t ELSE recalc_up(treap_recalc(t, u), treap_parent(t, u))

treap_mutate_data_no_recalc(t, u, data) == [t EXCEPT ![u + 1].data = data]

treap_mutate_data(t, u, data) == recalc_up([t EXCEPT ![u + 1].data = data], u)

\* order: the path from the root to u is walked top down.
RECURSIVE treap_path(_, _)
treap_path(t, u) ==
  IF u = EMPTY THEN <<>> ELSE Append(treap_path(t, treap_parent(t, u)), u)

RECURSIVE order_walk(_, _, _, _, _)
order_walk(t, path, i, flipped, ord) ==
  IF i = Len(path)
  THEN ord + treap_size(t, treap_child(t, path[i], flipped)[1])
  ELSE order_walk(t, path, i + 1, treap_flip(t[path[i] + 1], flipped),
                  IF path[i + 1] = treap_child(t, path[i], flipped)[2]
                  THEN ord + treap_size(t, treap_child(t, path[i], flipped)[1]) + 1
                  ELSE ord)

treap_order(t, u) ==
  IF u = EMPTY THEN 0 ELSE order_walk(t, treap_path(t, u), 1, FALSE, 0)

RECURSIVE find_kth_walk(_, _, _, _)
find_kth_at(t, u, k, flipped, l, r, szl) ==
  IF szl = k THEN u
  ELSE IF szl > k THEN find_kth_walk(t, l, k, treap_flip(t[u + 1], flipped))
  ELSE find_kth_walk(t, r, k - (szl + 1), treap_flip(t[u + 1], flipped))

find_kth_children(t, u, k, flipped, lr) ==
  find_kth_at(t, u, k, flipped, lr[1], lr[2], treap_size(t, lr[1]))

find_kth_walk(t, u, k, flipped) ==
  IF u = EMPTY THEN EMPTY
  ELSE find_kth_children(t, u, k, flipped, treap_child(t, u, flipped))

treap_find_kth(t, u, k) == find_kth_walk(t, treap_root(t, u), k, FALSE)

treap_len(t, u) == treap_size(t, treap_root(t, u))

treap_total_agg(t, u) == treap_ag_data(t, treap_root(t, u), FALSE)

treap_range_agg_lr(t, u, ql, qr) == range_agg_lr_inner(t, treap_root(t, u), ql, qr)

split_second(s1, s2) == [t |-> s2.t, ret |-> <<s1.a, s2.a, s2.b>>]

split_first(s1, ql, qr) == split_second(s1, split_k(s1.t, s1.b, qr - ql, FALSE))

treap_split_lr(t, u, ql, qr) == split_first(split_k(t, treap_root(t, u), ql, FALSE), ql, qr)

treap_reverse_element(t, u) == toggle_flip(t, u)

reverse_root(t, r) == IF r = EMPTY THEN t ELSE toggle_flip(t, r)

treap_reverse(t, u) == reverse_root(t, treap_root(t, u))

\* Provided methods of the trait.
treap_first(t, u) == treap_find_kth(t, u, 0)

treap_is_first(t, u) == u = treap_first(t, u)

treap_is_last(t, u) == treap_order(t, u) = treap_len(t, u) - 1

treap_next(t, u) == treap_find_kth(t, u, treap_order(t, u) + 1)

treap_prev(t, u) ==
  IF treap_order(t, u) > 0 THEN treap_find_kth(t, u, treap_order(t, u) - 1) ELSE EMPTY

treap_on_same_list(t, u, v) == treap_root(t, u) = treap_root(t, v)

treap_is_root(t, u) == treap_root(t, u) = u

\* find_element with the strategy given as the directions it answers, call by
\* call; `calls` collects the SearchData of every invocation.
RECURSIVE find_element_walk(_, _, _, _, _, _)
find_element_turn(t, u, flipped, script, i, calls, l, r) ==
  IF i > Len(script) \/ script[i] = "NotFound" THEN [ret |-> EMPTY, calls |-> calls]
  ELSE IF script[i] = "Found" THEN [ret |-> u, calls |-> calls]
  ELSE find_element_walk(t, IF script[i] = "Left" THEN l ELSE r,
                         treap_flip(t[u + 1], flipped), script, i + 1, calls)

find_element_call(t, u, flipped, script, i, calls, lr) ==
  find_element_turn(t, u, flipped, script, i,
                    Append(calls, [current |-> u,
                                   current_data |-> treap_data(t, u),
                                   left_agg |-> treap_ag_data(t, lr[1], flipped),
                                   right_agg |-> treap_ag_data(t, lr[2], flipped)]),
                    lr[1], lr[2])

find_element_walk(t, u, flipped, script, i, calls) ==
  IF u = EMPTY THEN [ret |-> EMPTY, calls |-> calls]
  ELSE find_element_call(t, u, flipped, script, i, calls, treap_child(t, u, flipped))

treap_find_element(t, u, script) ==
  find_element_walk(t, treap_root(t, u), FALSE, script, 1, <<>>)

\* ------------------------------------------------- link cut tree over Treaps
\* LCT<Treaps>, the LinkCutTree of FastDynamic2CoreSolver: the same code with the
\* preferred paths kept in a Treaps. The structure is [t, parent], t the nodes of
\* the treap.

\* l.create(()) for i in 0..n: node i draws priorities[i + 1].
RECURSIVE create_all(_, _)
create_all(priorities, n) ==
    IF n = 0 THEN <<>>
    ELSE treap_create(create_all(priorities, n - 1), 0, priorities[n]).t

lct_treaps_new(priorities, n) ==
    [t |-> create_all(priorities, n), parent |-> Repeat(EMPTY, n)]

\* The loop of LCT::access; it ends where assert!(is_last(u)) fails.
RECURSIVE access_loop_treaps(_, _, _, _, _)

\* access, lines 53-54: f is first(u).
access_next_treaps(p1, u, ok, t, f) ==
    access_loop_treaps([t |-> t, parent |-> [p1 EXCEPT ![f + 1] = EMPTY]], p1[f + 1], f, u, ok)

\* access, lines 51-52: c is the result of concat(u, prev_topmost).
access_concat_treaps(p1, u, ok, c) == access_next_treaps(p1, u, ok, c.t, treap_first(c.t, u))

\* access, lines 47-50: sp is the result of split(u, ..=order).
access_split_treaps(lc, u, prev_topmost, sp) ==
    IF ~treap_is_last(sp.t, u)
    THEN [lc |-> [t |-> sp.t, parent |-> lc.parent], ret |-> u, ok |-> FALSE]
    ELSE access_concat_treaps(IF sp.ret[3] # EMPTY
                              THEN [lc.parent EXCEPT ![treap_first(sp.t, sp.ret[3]) + 1] = u]
                              ELSE lc.parent,
                              u, TRUE, treap_concat(sp.t, u, prev_topmost))

access_loop_treaps(lc, u, prev_topmost, last_u, ok) ==
    IF u = EMPTY THEN [lc |-> lc, ret |-> last_u, ok |-> ok]
    ELSE access_split_treaps(lc, u, prev_topmost,
                             treap_split_lr(lc.t, u, 0, treap_order(lc.t, u) + 1))

access_treaps(lc, u) == access_loop_treaps(lc, u, EMPTY, u, TRUE)

root_accessed_treaps(a, u) == [lc |-> a.lc, ret |-> treap_first(a.lc.t, u), ok |-> a.ok]

lct_root_treaps(lc, u) == root_accessed_treaps(access_treaps(lc, u), u)

reroot_accessed_treaps(a, u) ==
    [lc |-> [a.lc EXCEPT !.t = IF a.ok THEN treap_reverse(a.lc.t, u) ELSE a.lc.t], ok |-> a.ok]

lct_reroot_treaps(lc, u) == reroot_accessed_treaps(access_treaps(lc, u), u)

\* link, lines 84-86: rr is the result of reroot(v).
link_rerooted_treaps(rr, u, v) ==
    IF ~rr.ok THEN [lc |-> rr.lc, ret |-> FALSE, ok |-> FALSE]
    ELSE [lc |-> [rr.lc EXCEPT !.parent[v + 1] = u], ret |-> TRUE, ok |-> TRUE]

\* link, line 81: ru and rv are the results of root(u) and root(v).
link_roots_treaps(ru, rv, u, v) ==
    IF ~rv.ok \/ ru.ret = rv.ret THEN [lc |-> rv.lc, ret |-> FALSE, ok |-> rv.ok]
    ELSE link_rerooted_treaps(lct_reroot_treaps(rv.lc, v), u, v)

link_root_u_treaps(ru, u, v) ==
    IF ~ru.ok THEN [lc |-> ru.lc, ret |-> FALSE, ok |-> FALSE]
    ELSE link_roots_treaps(ru, lct_root_treaps(ru.lc, v), u, v)

lct_link_treaps(lc, u, v) == link_root_u_treaps(lct_root_treaps(lc, u), u, v)

cut_accessed_treaps(a, u) ==
    IF ~a.ok \/ treap_is_first(a.lc.t, u) THEN [lc |-> a.lc, ret |-> EMPTY, ok |-> a.ok]
    ELSE [lc |-> [a.lc EXCEPT !.t = treap_split_lr(a.lc.t, u, 0, treap_order(a.lc.t, u)).t],
          ret |-> treap_prev(a.lc.t, u), ok |-> TRUE]

lct_cut_treaps(lc, u) == cut_accessed_treaps(access_treaps(lc, u), u)

lca_accessed_treaps(ru, av, v) ==
    [lc |-> av.lc, ret |-> IF av.ok /\ ru = treap_first(av.lc.t, v) THEN av.ret ELSE EMPTY,
     ok |-> av.ok]

lca_accessed_u_treaps(au, u, v) ==
    IF ~au.ok THEN [lc |-> au.lc, ret |-> EMPTY, ok |-> FALSE]
    ELSE lca_accessed_treaps(treap_first(au.lc.t, u), access_treaps(au.lc, v), v)

lct_lca_treaps(lc, u, v) == lca_accessed_u_treaps(access_treaps(lc, u), u, v)

\* ------------------------------------------------------------ HDT solver
\* Data::Node and Data::Edge, the payloads the solver stores in its ETTs.
DataNode(idx) == [idx |-> idx, extra_edges |-> 0, any_extra_edges |-> 0]
DataEdge(e_id, level) == [e_id |-> e_id, level |-> level]

\* AgData: default, from and merge.
AgDefault == [min_edge_level |-> USIZE_MAX, total_extra_edges |-> 0, total_any_extra_edges |-> 0]

AgFrom(p) ==
    IF p.node
    THEN [min_edge_level |-> USIZE_MAX, total_extra_edges |-> p.data.extra_edges,
          total_any_extra_edges |-> p.data.any_extra_edges]
    ELSE [min_edge_level |-> p.data.level, total_extra_edges |-> 0, total_any_extra_edges |-> 0]

AgMerge(a, b) ==
    [min_edge_level |-> Min2(a.min_edge_level, b.min_edge_level),
     total_extra_edges |-> a.total_extra_edges + b.total_extra_edges,
     total_any_extra_edges |-> a.total_any_extra_edges + b.total_any_extra_edges]

\* Lists::range_agg_lr on the list of u: the fold of positions l..r-1 (0-indexed).
RECURSIVE range_agg_fold(_, _, _, _, _)
range_agg_fold(t, s, l, r, agg) ==
    IF l >= r \/ l >= Len(s) THEN agg
    ELSE range_agg_fold(t, s, l + 1, r, AgMerge(agg, AgFrom(ett_data(t, s[l + 1]))))

range_agg_lr(t, u, l, r) == range_agg_fold(t, list(t.ls, u), l, r, AgDefault)

\* The closure of find_level_i_tree_edge looking to the right only for levels
\* below i.
tree_edge_strategy_below(i, cur, left_agg, right_agg) ==
    IF ~cur.node /\ cur.data.level = i THEN "Found"
    ELSE IF left_agg.min_edge_level <= i THEN "Left"
    ELSE IF right_agg.min_edge_level < i THEN "Right"
    ELSE "NotFound"

\* The closure of find_level_i_tree_edge, which captures the level i.
tree_edge_strategy(i, cur, left_agg, right_agg) ==
    IF ~cur.node /\ cur.data.level = i THEN "Found"
    ELSE IF left_agg.min_edge_level <= i THEN "Left"
    ELSE IF right_agg.min_edge_level <= i THEN "Right"
    ELSE "NotFound"

\* The closure of find_level_i_extra_edge.
extra_edge_strategy(cur, left_agg, right_agg) ==
    IF cur.node /\ cur.data.extra_edges > 0 THEN "Found"
    ELSE IF left_agg.total_extra_edges > 0 THEN "Left"
    ELSE IF right_agg.total_extra_edges > 0 THEN "Right"
    ELSE "NotFound"

\* The first closure of first_and_last_nodes_with_extra_edges.
first_node_strategy(cur, left_agg, right_agg) ==
    IF left_agg.total_any_extra_edges > 0 THEN "Left"
    ELSE IF cur.node /\ cur.data.any_extra_edges > 0 THEN "Found"
    ELSE IF right_agg.total_any_extra_edges > 0 THEN "Right"
    ELSE "NotFound"

\* The second closure of first_and_last_nodes_with_extra_edges.
last_node_strategy(cur, left_agg, right_agg) ==
    IF right_agg.total_any_extra_edges > 0 THEN "Right"
    ELSE IF cur.node /\ cur.data.any_extra_edges > 0 THEN "Found"
    ELSE IF left_agg.total_any_extra_edges > 0 THEN "Left"
    ELSE "NotFound"

\* The call of the closure passed to find_element: strategy is the record
\* [kind, i] naming the closure and the level it captures.
search_strategy(strategy, cur, left_agg, right_agg) ==
    CASE strategy.kind = "tree_edge"  -> tree_edge_strategy(strategy.i, cur, left_agg, right_agg)
      [] strategy.kind = "extra_edge" -> extra_edge_strategy(cur, left_agg, right_agg)
      [] strategy.kind = "first_node" -> first_node_strategy(cur, left_agg, right_agg)
      [] strategy.kind = "last_node"  -> last_node_strategy(cur, left_agg, right_agg)

\* The answers of the strategy along the list s: dir[k] for position k - 1,
\* given the current payload, an empty left aggregate and the aggregate of
\* what follows.
directions(t, s, strategy) ==
    [k \in 1..Len(s) |-> search_strategy(strategy, ett_data(t, s[k]), AgDefault,
                                         range_agg_fold(t, s, k, Len(s), AgDefault))]

\* The scan stops at the first answer that is not Right: [ret, ok], ret the
\* handle found (EMPTY for none), ok false when the strategy answers Left.
scan(s, dir) ==
    LET stop == {k \in 1..Len(s) : dir[k] # "Right"}
        k0   == CHOOSE k \in stop : \A j \in stop : k <= j
    IN IF stop = {} THEN [ret |-> EMPTY, ok |-> TRUE]
       ELSE [ret |-> IF dir[k0] = "Found" THEN s[k0] ELSE EMPTY, ok |-> dir[k0] # "Left"]

\* Lists::find_element as the linear scan of SlowLists.
find_element(t, u, strategy) ==
    scan(list(t.ls, u), directions(t, list(t.ls, u), strategy))

\* The solver is generic in its link cut tree LC: lc_0 is an LCT over
\* SlowLists, [ls, parent], or an LCT over Treaps, [t, parent], and its calls go
\* to the implementation for that type.
over_treaps(lc) == "t" \in DOMAIN lc

\* lc_0.link(u, v)
lc_0_link(lc, u, v) == IF over_treaps(lc) THEN lct_link_treaps(lc, u, v) ELSE lct_link(lc, u, v)

\* lc_0.cut(u)
lc_0_cut(lc, u) == IF over_treaps(lc) THEN lct_cut_treaps(lc, u) ELSE lct_cut(lc, u)

\* lc_0.reroot(u)
lc_0_reroot(lc, u) == IF over_treaps(lc) THEN lct_reroot_treaps(lc, u) ELSE lct_reroot(lc, u)

\* lc_0.root(u)
lc_0_root(lc, u) == IF over_treaps(lc) THEN lct_root_treaps(lc, u) ELSE lct_root(lc, u)

\* kth_in_path_from_root over Treaps: a is the result of access(u).
kth_accessed_treaps(a, u, k) ==
    [lc |-> a.lc, ret |-> IF a.ok THEN treap_find_kth(a.lc.t, u, k) ELSE EMPTY, ok |-> a.ok]

\* lc_0.kth_in_path_from_root(u, k)
lc_0_kth_in_path_from_root(lc, u, k) ==
    IF over_treaps(lc) THEN kth_accessed_treaps(access_treaps(lc, u), u, k)
    ELSE kth_in_path_from_root(lc, u, k)

\* The solver is the record [ett, edge_info, e_to_id, u_level_to_extras, lc_0, ok]:
\* ett[lvl + 1] the forest of level lvl, edge_info[e_id + 1] the EdgeInfo of e_id,
\* ok false once an assert!/expect/unwrap of the code has failed.
\* levels[lvl][u] is u: new() creates the vertex elements first, in order.
levels(lvl, u) == u

next_power_of_two(n) ==
    CHOOSE p \in {2 ^ k : k \in 0..n} : p >= n /\ \A q \in {2 ^ k : k \in 0..n} : q >= n => p <= q

trailing_zeros(p) == CHOOSE k \in 0..p : 2 ^ k = p

Ett(s, lvl) == s.ett[lvl + 1]
NumLevels(s) == Len(s.ett)
Check(s, cond) == [s EXCEPT !.ok = @ /\ cond]

ExtrasLen(s, u, lvl) ==
    IF <<u, lvl>> \in DOMAIN s.u_level_to_extras
    THEN Cardinality(s.u_level_to_extras[<<u, lvl>>]) ELSE 0

RECURSIVE SumExtras(_, _, _)
SumExtras(s, u, i) == IF i < 0 THEN 0 ELSE ExtrasLen(s, u, i) + SumExtras(s, u, i - 1)

edge(s, e_id) == [e |-> s.edge_info[e_id + 1].e, level |-> s.edge_info[e_id + 1].level]

is_extra(info) == ~info.levels.some

\* assert_extra: whether its asserts hold.
assert_extra(s, e_id, lvl) ==
    LET ed == edge(s, e_id)
    IN /\ is_extra(s.edge_info[e_id + 1])
       /\ ed.level = lvl
       /\ \A w \in {ed.e[1], ed.e[2]} :
             /\ <<w, lvl>> \in DOMAIN s.u_level_to_extras
             /\ e_id \in s.u_level_to_extras[<<w, lvl>>]

\* assert_data: whether its asserts hold.
assert_data(s, node, lvl) ==
    IF node = EMPTY THEN TRUE
    ELSE LET p == ett_data(Ett(s, lvl), node)
         IN IF p.node
            THEN /\ ExtrasLen(s, p.data.idx, lvl) = p.data.extra_edges
                 /\ p.data.any_extra_edges =
                        IF lvl = 0 THEN SumExtras(s, p.data.idx, NumLevels(s) - 1) ELSE 0
            ELSE /\ p.data.level >= lvl
                 /\ p.data.e_id < Len(s.edge_info)
                 /\ s.edge_info[p.data.e_id + 1].level = p.data.level
                 /\ ~is_extra(s.edge_info[p.data.e_id + 1])

tree_edge_found(s, i, found) ==
    IF found.ret # EMPTY
    THEN [ret |-> ett_data(Ett(s, i), found.ret).data.e_id,
          ok  |-> found.ok /\ assert_data(s, found.ret, i)]
    ELSE [ret |-> EMPTY, ok |-> found.ok]

\* find_level_i_tree_edge: [ret, ok], ret the e_id found or EMPTY for None.
find_level_i_tree_edge(s, i, u) ==
    tree_edge_found(s, i, find_element(Ett(s, i), u, [kind |-> "tree_edge", i |-> i]))

\* BTreeSet::first
SetMin(S) == CHOOSE x \in S : \A y \in S : x <= y

\* find_level_i_extra_edge, lines 348-352: id is the first extra edge of w.
extra_edge_picked(s, i, found, id) ==
    [ret |-> id, ok |-> found.ok /\ assert_data(s, found.ret, i) /\ assert_extra(s, id, i)]

\* find_level_i_extra_edge, lines 347-350: w is the vertex found.
extra_edge_at(s, i, found, w) ==
    IF <<w, i>> \in DOMAIN s.u_level_to_extras /\ s.u_level_to_extras[<<w, i>>] # {}
    THEN extra_edge_picked(s, i, found, SetMin(s.u_level_to_extras[<<w, i>>]))
    ELSE [ret |-> EMPTY, ok |-> FALSE]

extra_edge_found(s, i, found) ==
    IF found.ret # EMPTY
    THEN extra_edge_at(s, i, found, ett_data(Ett(s, i), found.ret).data.idx)
    ELSE [ret |-> EMPTY, ok |-> found.ok]

\* find_level_i_extra_edge: [ret, ok], ret the e_id found or EMPTY for None.
find_level_i_extra_edge(s, i, u) ==
    extra_edge_found(s, i, find_element(Ett(s, i), u, [kind |-> "extra_edge", i |-> i]))

first_and_last(f, l) ==
    [some |-> f.ret # l.ret, first |-> f.ret, last |-> l.ret, ok |-> f.ok /\ l.ok]

\* first_and_last_nodes_with_extra_edges: [some, first, last, ok].
first_and_last_nodes_with_extra_edges(s, u) ==
    first_and_last(find_element(Ett(s, 0), levels(0, u), [kind |-> "first_node", i |-> 0]),
                   find_element(Ett(s, 0), levels(0, u), [kind |-> "last_node", i |-> 0]))

\* unwrap_node_mut(w, lvl).extra_edges += d
BumpExtra(s, w, lvl, d) ==
    [s EXCEPT !.ett[lvl + 1].d[levels(lvl, w) + 1].data.extra_edges = @ + d]

\* unwrap_node_mut(w, 0).any_extra_edges += d
BumpAnyExtra(s, w, d) ==
    [s EXCEPT !.ett[1].d[levels(0, w) + 1].data.any_extra_edges = @ + d]

ExtrasAt(s, w, lvl) ==
    IF <<w, lvl>> \in DOMAIN s.u_level_to_extras THEN s.u_level_to_extras[<<w, lvl>>] ELSE {}

\* The body of the loop of add_edge_id counting the edge at level 0 whatever
\* its level.
add_extra_at_counts_at_level_0(s, w, lvl, e_id) ==
    BumpAnyExtra(
        BumpExtra(
            [s EXCEPT !.u_level_to_extras =
                          [x \in DOMAIN @ \cup {<<w, lvl>>} |->
                              IF x = <<w, lvl>> THEN ExtrasAt(s, w, lvl) \cup {e_id} ELSE @[x]],
                      !.ok = @ /\ e_id \notin ExtrasAt(s, w, lvl)],
            w, 0, 1),
        w, 1)

\* The body of the loop of add_edge_id for one endpoint w.
add_extra_at(s, w, lvl, e_id) ==
    BumpAnyExtra(
        BumpExtra(
            [s EXCEPT !.u_level_to_extras =
                          [x \in DOMAIN @ \cup {<<w, lvl>>} |->
                              IF x = <<w, lvl>> THEN ExtrasAt(s, w, lvl) \cup {e_id} ELSE @[x]],
                      !.ok = @ /\ e_id \notin ExtrasAt(s, w, lvl)],
            w, lvl, 1),
        w, 1)

\* add_edge_id, line 408.
extra_added(s, e_id, lvl) == Check(s, assert_extra(s, e_id, lvl))

\* add_edge_id, line 397.
id_inserted(s, pair, e_id) ==
    [s EXCEPT !.e_to_id = [x \in DOMAIN @ \cup {pair} |-> IF x = pair THEN e_id ELSE @[x]],
              !.ok = @ /\ pair \notin DOMAIN s.e_to_id]

\* add_edge_id, lines 398-409: s has the id registered; ed is (e, level).
add_edge_id_extras(s, e_id, ed) ==
    IF is_extra(s.edge_info[e_id + 1])
    THEN extra_added(add_extra_at(add_extra_at(s, ed.e[1], ed.level, e_id),
                                  ed.e[2], ed.level, e_id),
                     e_id, ed.level)
    ELSE s

add_edge_id(s, e_id) ==
    add_edge_id_extras(id_inserted(s, edge(s, e_id).e, e_id), e_id, edge(s, e_id))

\* The body of the loop of rem_edge_id leaving the set of lines 417-421 as it is.
rem_extra_at_keeps_index(s, w, lvl, e_id) ==
    IF /\ e_id \in ExtrasAt(s, w, lvl)
       /\ ett_data(Ett(s, lvl), levels(lvl, w)).data.extra_edges > 0
       /\ ett_data(Ett(s, 0), levels(0, w)).data.any_extra_edges > 0
    THEN BumpAnyExtra(BumpExtra(s, w, lvl, -1), w, -1)
    ELSE Check(s, FALSE)

rem_extra_at_keeps_any(s, w, lvl, e_id) ==
    IF /\ e_id \in ExtrasAt(s, w, lvl)
       /\ ett_data(Ett(s, lvl), levels(lvl, w)).data.extra_edges > 0
    THEN BumpExtra([s EXCEPT !.u_level_to_extras[<<w, lvl>>] = @ \ {e_id}], w, lvl, -1)
    ELSE Check(s, FALSE)

\* The body of the loop of rem_edge_id for one endpoint w.
rem_extra_at(s, w, lvl, e_id) ==
    IF /\ e_id \in ExtrasAt(s, w, lvl)
       /\ ett_data(Ett(s, lvl), levels(lvl, w)).data.extra_edges > 0
       /\ ett_data(Ett(s, 0), levels(0, w)).data.any_extra_edges > 0
    THEN BumpAnyExtra(
             BumpExtra([s EXCEPT !.u_level_to_extras[<<w, lvl>>] = @ \ {e_id}], w, lvl, -1),
             w, -1)
    ELSE Check(s, FALSE)

\* rem_edge_id, line 414.
id_removed(s, pair) ==
    [s EXCEPT !.e_to_id = [x \in DOMAIN @ \ {pair} |-> @[x]],
              !.ok = @ /\ pair \in DOMAIN s.e_to_id]

\* rem_edge_id, lines 415-425.
rem_edge_id_extras(s, e_id, ed) ==
    IF is_extra(s.edge_info[e_id + 1])
    THEN rem_extra_at(rem_extra_at(s, ed.e[1], ed.level, e_id), ed.e[2], ed.level, e_id)
    ELSE s

rem_edge_id(s, e_id) ==
    rem_edge_id_extras(id_removed(s, edge(s, e_id).e), e_id, edge(s, e_id))

\* The level stored in both half-edges of the edge ref at forest t.
\* The update of line 438 reaching only the first half-edge of the pair.
set_edge_level_first_half(t, ref, level) ==
    [t EXCEPT !.d[ref[1] + 1].data.level = level]

set_edge_level(t, ref, level) ==
    [t EXCEPT !.d[ref[1] + 1].data.level = level, !.d[ref[2] + 1].data.level = level]

\* add_level_to_edge, lines 444-454: c is the result of the connect at the new level.
level_connected(s, e_id, c) ==
    IF c.some
    THEN [s EXCEPT !.ett[edge(s, e_id).level + 1] = c.t,
                   !.edge_info[e_id + 1].levels.v = Append(@, c.ref),
                   !.ok = @ /\ c.ok /\ Len(s.edge_info[e_id + 1].levels.v) + 1
                                        = edge(s, e_id).level + 1]
    ELSE Check(s, FALSE)

\* add_level_to_edge, lines 440-453: s has the new level in every half-edge.
level_connect(s, e_id, ed) ==
    level_connected(s, e_id,
                    ett_connect(Ett(s, ed.level), levels(ed.level, ed.e[1]),
                                levels(ed.level, ed.e[2]),
                                DataEdge(e_id, ed.level), DataEdge(e_id, ed.level)))

\* add_level_to_edge, lines 433-439: the loop over the levels elvl >= j - 1 of
\* the edge.
RECURSIVE levels_set_from(_, _, _, _)
levels_set_from(s, lv, level, j) ==
    IF j > Len(lv) THEN s
    ELSE levels_set_from([s EXCEPT !.ett[j] = set_edge_level(@, lv[j], level)],
                         lv, level, j + 1)

levels_set(s, e_id, lv, level) == levels_set_from(s, lv, level, 1)

\* add_level_to_edge, lines 432-461: s has the edge registered at its new level.
level_added(s, e_id, ed) ==
    IF s.edge_info[e_id + 1].levels.some
    THEN level_connect(levels_set(s, e_id, s.edge_info[e_id + 1].levels.v, ed.level), e_id, ed)
    ELSE Check(s, /\ assert_extra(s, e_id, ed.level)
                  /\ ett_is_connected(Ett(s, ed.level), levels(ed.level, ed.e[1]),
                                      levels(ed.level, ed.e[2])))

\* add_level_to_edge, line 430.
level_bumped(s, e_id) == [s EXCEPT !.edge_info[e_id + 1].level = @ + 1]

\* add_level_to_edge, lines 431-461: s has the new level in edge_info.
level_registered(s, e_id) == level_added(add_edge_id(s, e_id), e_id, edge(s, e_id))

\* add_level_to_edge without the connect at the new level.
add_level_to_edge_without_connect(s, e_id) ==
    add_edge_id(level_bumped(rem_edge_id(s, e_id), e_id), e_id)

\* add_level_to_edge that does not keep the EdgeRef of the new level.
add_level_to_edge_forgets_ref(s, e_id) ==
    [level_registered(level_bumped(rem_edge_id(s, e_id), e_id), e_id)
        EXCEPT !.edge_info[e_id + 1].levels.v =
                   IF @ = <<>> THEN @ ELSE SubSeq(@, 1, Len(@) - 1)]

\* add_level_to_edge raising the level by two.
add_level_to_edge_by_two(s, e_id) ==
    IF edge(s, e_id).level + 1 >= NumLevels(s) THEN Check(s, FALSE)
    ELSE level_registered(level_bumped(level_bumped(rem_edge_id(s, e_id), e_id), e_id), e_id)

\* add_level_to_edge with lines 430 and 431 swapped: the edge is registered
\* again before its level is raised.
add_level_to_edge_registers_first(s, e_id) ==
    IF edge(s, e_id).level + 1 >= NumLevels(s) THEN Check(s, FALSE)
    ELSE level_added(level_bumped(add_edge_id(rem_edge_id(s, e_id), e_id), e_id), e_id,
                     edge(level_bumped(s, e_id), e_id))

\* add_level_to_edge leaving the level of line 430 as it is.
add_level_to_edge_same_level(s, e_id) ==
    IF edge(s, e_id).level + 1 >= NumLevels(s) THEN Check(s, FALSE)
    ELSE level_registered(rem_edge_id(s, e_id), e_id)

add_level_to_edge(s, e_id) ==
    IF edge(s, e_id).level + 1 >= NumLevels(s) THEN Check(s, FALSE)
    ELSE level_registered(level_bumped(rem_edge_id(s, e_id), e_id), e_id)

\* new, lines 480-488: the payloads of the n nodes of one level, created in order.
RECURSIVE nodes_created(_)
nodes_created(n) ==
    IF n = 0 THEN <<>> ELSE Append(nodes_created(n - 1), ETNode(DataNode(n - 1)))

\* new with one level less than lines 474-477 allocate.
d2c_new_one_level_less(n) ==
    [ett |-> Repeat([ls |-> {<<i>> : i \in 0..(n - 1)}, d |-> nodes_created(n)],
                    trailing_zeros(next_power_of_two(n))),
     edge_info |-> <<>>,
     e_to_id |-> [x \in {} |-> 0],
     u_level_to_extras |-> [x \in {} |-> {}],
     lc_0 |-> lct_new(n),
     ok |-> TRUE]

d2c_new(n) ==
    [ett |-> Repeat([ls |-> {<<i>> : i \in 0..(n - 1)}, d |-> nodes_created(n)],
                    trailing_zeros(next_power_of_two(n)) + 1),
     edge_info |-> <<>>,
     e_to_id |-> [x \in {} |-> 0],
     u_level_to_extras |-> [x \in {} |-> {}],
     lc_0 |-> lct_new(n),
     ok |-> TRUE]

\* add_edge, lines 511-513: lk is the result of lc_0.link(u, v).
tree_edge_linked(s, c, lk) ==
    [s EXCEPT !.ett[1] = c.t, !.lc_0 = lk.lc, !.ok = @ /\ c.ok /\ lk.ok /\ lk.ret]

\* add_edge, lines 514-518.
info_pushed(s, u, v, c) ==
    [s EXCEPT !.edge_info = Append(@,
        [e |-> <<u, v>>, level |-> 0,
         levels |-> [some |-> c.some, v |-> IF c.some THEN <<c.ref>> ELSE <<>>]])]

\* add_edge, lines 510-518: c is the result of the connect at level 0.
edge_connected(s, u, v, c) ==
    info_pushed(IF c.some THEN tree_edge_linked(s, c, lc_0_link(s.lc_0, u, v)) ELSE s, u, v, c)

\* add_edge, lines 508-520, for u < v and an edge not yet present.
edge_added(s, u, v, e_id) ==
    add_edge_id(
        edge_connected(s, u, v,
                       ett_connect(Ett(s, 0), levels(0, u), levels(0, v),
                                   DataEdge(e_id, 0), DataEdge(e_id, 0))),
        e_id)

\* add_edge: [s, ret].
add_edge_unnormalised(s, u, v) ==
    IF u = v \/ <<u, v>> \in DOMAIN s.e_to_id
    THEN [s |-> s, ret |-> FALSE]
    ELSE [s |-> edge_added(s, Min2(u, v), Max2(u, v), Len(s.edge_info)), ret |-> TRUE]

add_edge(s, u, v) ==
    IF u = v \/ Norm(u, v) \in DOMAIN s.e_to_id
    THEN [s |-> s, ret |-> FALSE]
    ELSE [s |-> edge_added(s, Min2(u, v), Max2(u, v), Len(s.edge_info)), ret |-> TRUE]

\* remove_edge, first loop (lines 539-557): the edge is cut at every level it
\* is in; smalls collects the root of the smaller side of each level.
\* The loop of lines 539-557 keeping the larger side of every disconnect.
RECURSIVE cut_levels_keeps_larger(_, _, _, _, _, _)
cut_levels_keeps_larger(s, lv, lvl, u, v, smalls) ==
    IF lvl >= Len(lv) \/ ~s.ok THEN [s |-> s, smalls |-> smalls]
    ELSE LET dr == ett_disconnect(Ett(s, lvl), lv[lvl + 1])
         IN cut_levels_keeps_larger(
                [s EXCEPT !.ett[lvl + 1] = dr.t], lv, lvl + 1, u, v,
                Append(smalls, IF ett_tree_size(dr.t, dr.a) < ett_tree_size(dr.t, dr.b)
                               THEN dr.b ELSE dr.a))

\* The loop of lines 539-557 keeping tu whatever the sizes of line 551.
RECURSIVE cut_levels_keeps_first(_, _, _, _, _, _)
cut_levels_keeps_first(s, lv, lvl, u, v, smalls) ==
    IF lvl >= Len(lv) \/ ~s.ok THEN [s |-> s, smalls |-> smalls]
    ELSE cut_levels_keeps_first(
             [s EXCEPT !.ett[lvl + 1] = ett_disconnect(Ett(s, lvl), lv[lvl + 1]).t],
             lv, lvl + 1, u, v,
             Append(smalls, ett_disconnect(Ett(s, lvl), lv[lvl + 1]).a))

RECURSIVE cut_levels(_, _, _, _, _, _)

\* remove_edge, lines 546-555: dr is the result of the disconnect at level lvl.
level_cut(s, lv, lvl, u, v, smalls, dr) ==
    cut_levels(
        Check([s EXCEPT !.ett[lvl + 1] = dr.t],
              /\ ett_is_connected(Ett(s, lvl), levels(lvl, u), levels(lvl, v))
              /\ dr.ok
              /\ ~ett_is_connected(dr.t, dr.a, dr.b)
              /\ ~ett_is_connected(dr.t, levels(lvl, u), levels(lvl, v))
              /\ assert_data([s EXCEPT !.ett[lvl + 1] = dr.t], dr.a, lvl)
              /\ assert_data([s EXCEPT !.ett[lvl + 1] = dr.t], dr.b, lvl)),
        lv, lvl + 1, u, v,
        Append(smalls, IF ett_tree_size(dr.t, dr.a) < ett_tree_size(dr.t, dr.b)
                       THEN dr.a ELSE dr.b))

cut_levels(s, lv, lvl, u, v, smalls) ==
    IF lvl >= Len(lv) \/ ~s.ok THEN [s |-> s, smalls |-> smalls]
    ELSE level_cut(s, lv, lvl, u, v, smalls, ett_disconnect(Ett(s, lvl), lv[lvl + 1]))

\* remove_edge, lines 563-567: every tree edge of level i of the small side
\* moves to level i + 1.
RECURSIVE promote_tree_edges(_, _, _)

\* The body of the loop: f is the result of find_level_i_tree_edge.
tree_edge_promoted(s, i, small, f) ==
    IF f.ret = EMPTY \/ ~f.ok THEN Check(s, f.ok)
    ELSE promote_tree_edges(
             add_level_to_edge(
                 Check(s, /\ ~is_extra(s.edge_info[f.ret + 1])
                          /\ s.edge_info[f.ret + 1].level = i),
                 f.ret),
             i, small)

promote_tree_edges(s, i, small) ==
    IF ~s.ok THEN s ELSE tree_edge_promoted(s, i, small, find_level_i_tree_edge(s, i, small))

\* remove_edge, lines 581-604: the replacement edge f_id = (a, b) is connected in
\* the forests of levels j..i; rs collects the edge refs.
RECURSIVE connect_replacement(_, _, _, _, _, _, _)

\* The body of the loop: c is the result of the connect at level j.
replacement_connected(s, f_id, j, i, u, v, rs, c) ==
    connect_replacement(
        Check([s EXCEPT !.ett[j + 1] = c.t],
              /\ ~ett_is_connected(Ett(s, j), levels(j, u), levels(j, v))
              /\ ~ett_is_connected(Ett(s, j), levels(j, s.edge_info[f_id + 1].e[1]),
                                   levels(j, s.edge_info[f_id + 1].e[2]))
              /\ c.some /\ c.ok
              /\ ett_is_connected(c.t, levels(j, s.edge_info[f_id + 1].e[1]),
                                  levels(j, s.edge_info[f_id + 1].e[2]))
              /\ ett_is_connected(c.t, levels(j, u), levels(j, v))),
        f_id, j + 1, i, u, v, Append(rs, c.ref))

connect_replacement(s, f_id, j, i, u, v, rs) ==
    IF j > i \/ ~s.ok THEN [s |-> s, rs |-> rs]
    ELSE replacement_connected(s, f_id, j, i, u, v, rs,
             ett_connect(Ett(s, j), levels(j, s.edge_info[f_id + 1].e[1]),
                         levels(j, s.edge_info[f_id + 1].e[2]),
                         DataEdge(f_id, i), DataEdge(f_id, i)))

\* remove_edge, lines 605-607: cr is the result of the loop of lines 581-604.
replacement_registered(cr, f_id) ==
    add_edge_id([cr.s EXCEPT !.edge_info[f_id + 1].levels = [some |-> TRUE, v |-> cr.rs],
                             !.ok = @ /\ ~cr.s.edge_info[f_id + 1].levels.some],
                f_id)

\* remove_edge, lines 573-607: lk is the result of lc_0.link(a, b).
replacement_linked(s, f_id, i, u, v, lk) ==
    replacement_registered(
        connect_replacement(
            rem_edge_id([s EXCEPT !.lc_0 = lk.lc, !.ok = @ /\ lk.ok /\ lk.ret], f_id),
            f_id, 0, i, u, v, <<>>),
        f_id)

\* remove_edge, lines 569-611: the extra edges of level i of the small side are
\* tried in turn; done is true when one replaced the removed edge (return true
\* at line 608).
RECURSIVE try_extra_edges(_, _, _, _, _)

try_extra_edges_none(s, i, small, u, v) == [s |-> s, done |-> FALSE]

\* The body of the loop: the extra edge found is f_id = (a, b).
extra_edge_tried(s, i, small, u, v, f_id, a, b) ==
    IF ~ett_is_connected(Ett(s, i), levels(i, a), levels(i, b))
    THEN [s |-> replacement_linked(s, f_id, i, u, v, lc_0_link(s.lc_0, a, b)), done |-> TRUE]
    ELSE try_extra_edges(add_level_to_edge(s, f_id), i, small, u, v)

\* The loop condition: f is the result of find_level_i_extra_edge.
extra_edge_next(s, i, small, u, v, f) ==
    IF f.ret = EMPTY \/ ~f.ok THEN [s |-> Check(s, f.ok), done |-> FALSE]
    ELSE extra_edge_tried(s, i, small, u, v, f.ret,
                          s.edge_info[f.ret + 1].e[1], s.edge_info[f.ret + 1].e[2])

try_extra_edges(s, i, small, u, v) ==
    IF ~s.ok THEN [s |-> s, done |-> FALSE]
    ELSE extra_edge_next(s, i, small, u, v, find_level_i_extra_edge(s, i, small))

\* remove_edge, lines 560-612: levels from the top one of the removed edge down to 0.
RECURSIVE search_replacement(_, _, _, _, _)

\* r is the result of the two loops at level i.
level_searched(r, i, smalls, u, v) ==
    IF r.done THEN r.s ELSE search_replacement(r.s, i - 1, smalls, u, v)

search_replacement(s, i, smalls, u, v) ==
    IF i < 0 \/ ~s.ok THEN s
    ELSE level_searched(
             try_extra_edges(promote_tree_edges(s, i, smalls[i + 1]), i, smalls[i + 1], u, v),
             i, smalls, u, v)

\* remove_edge, lines 558-612: cl is the result of the loop of lines 539-557.
tree_edge_cut(cl, e_id, u, v) ==
    search_replacement(rem_edge_id(cl.s, e_id), Len(cl.smalls) - 1, cl.smalls, u, v)

\* remove_edge, line 538: ct is the result of lc_0.cut(v).
lc_cut(s, u, rr_ok, ct) == [s EXCEPT !.lc_0 = ct.lc, !.ok = @ /\ rr_ok /\ ct.ok /\ ct.ret = u]

\* remove_edge, lines 537-538: rr is the result of lc_0.reroot(u).
lc_rerooted(s, u, v, rr) == lc_cut(s, u, rr.ok, lc_0_cut(rr.lc, v))

\* remove_edge, lines 532-612, for a tree edge e_id = (u, v).
tree_edge_removed(s, u, v, e_id) ==
    tree_edge_cut(
        cut_levels(lc_rerooted(s, u, v, lc_0_reroot(s.lc_0, u)),
                   s.edge_info[e_id + 1].levels.v, 0, u, v, <<>>),
        e_id, u, v)

\* remove_edge, lines 532-617, for u < v and an edge e_id that is present.
edge_removed(s, u, v, e_id) ==
    IF s.edge_info[e_id + 1].levels.some
    THEN tree_edge_removed(s, u, v, e_id)
    ELSE rem_edge_id(s, e_id)

\* remove_edge: [s, ret].
remove_edge(s, u, v) ==
    IF Norm(u, v) \notin DOMAIN s.e_to_id
    THEN [s |-> s, ret |-> FALSE]
    ELSE [s |-> edge_removed(s, Min2(u, v), Max2(u, v), s.e_to_id[Norm(u, v)]), ret |-> TRUE]

is_connected(s, u, v) == ett_is_connected(Ett(s, 0), levels(0, u), levels(0, v))

\* is_in_2core, lines 632-636: k1 and k2 are the second vertices of the paths
\* from the root to first and to last.
core_subtrees(s, fl, k1, k2) ==
    [s |-> [s EXCEPT !.lc_0 = k2.lc, !.ok = @ /\ fl.ok /\ k1.ok /\ k2.ok],
     ret |-> k1.ret # k2.ret]

core_first_subtree(s, fl, k1) ==
    core_subtrees(s, fl, k1, lc_0_kth_in_path_from_root(k1.lc, fl.last, 1))

\* is_in_2core, lines 627-637: fl is the result of
\* first_and_last_nodes_with_extra_edges.
core_first_last(s, u, fl) ==
    IF ~fl.some THEN [s |-> Check(s, fl.ok), ret |-> FALSE]
    ELSE IF fl.first = u THEN [s |-> Check(s, fl.ok), ret |-> TRUE]
    ELSE core_first_subtree(s, fl, lc_0_kth_in_path_from_root(s.lc_0, fl.first, 1))

\* is_in_2core, lines 627-637: s is rooted at u in ett[0] and in lc_0.
core_rooted(s, u) == core_first_last(s, u, first_and_last_nodes_with_extra_edges(s, u))

core_reroot_forest_only(s, u, rr) ==
    [s EXCEPT !.ett[1] = reroot_raw(@, levels(0, u)), !.ok = @ /\ rr.ok]

\* is_in_2core, lines 625-626: rr is the result of lc_0.reroot(u).
core_reroot(s, u, rr) ==
    [s EXCEPT !.ett[1] = reroot_raw(@, levels(0, u)), !.lc_0 = rr.lc, !.ok = @ /\ rr.ok]

\* is_in_2core: [s, ret]; it reroots the level 0 forest and lc_0 at u.
is_in_2core(s, u) == core_rooted(core_reroot(s, u, lc_0_reroot(s.lc_0, u)), u)

is_in_1core_above_two(s, u) == ett_tree_size(Ett(s, 0), levels(0, u)) > 2

is_in_1core(s, u) == ett_tree_size(Ett(s, 0), levels(0, u)) > 1

\* --------------------------------------- stand-alone Euler tour tree
\* tt, refs, elog, epanic: the stand-alone Euler tour tree, the EdgeRefs its
\* caller holds, its last call and whether it panicked.
\* d2c: the solver; graph: the edges present (the adjacency kept by the naive
\* reference Slow).
\* lc, slow, llog, lpanic: the stand-alone link cut tree, the naive SlowLCT
\* driven by the same calls, the last call and whether the LCT panicked.
VARIABLES tt, refs, elog, epanic, d2c, graph, lc, slow, llog, lpanic, tr, sl, tlog

vars == <<tt, refs, elog, epanic, d2c, graph, lc, slow, llog, lpanic, tr, sl, tlog>>
ettVars == <<tt, refs, elog, epanic>>
d2cVars == <<d2c, graph>>
lctVars == <<lc, slow, llog, lpanic>>
listVars == <<tr, sl, tlog>>

\* The link cut tree and its reference before any call.
LctStart ==
    /\ lc = lct_new(LctN)
    /\ slow = slow_new(LctN)
    /\ llog = [op |-> "new", u |-> 0, v |-> 0, some |-> TRUE, ret |-> EMPTY]
    /\ lpanic = FALSE

\* Treaps::new and SlowLists::new; no element is created yet.
ListStart ==
    /\ tr = <<>>
    /\ sl = slow_lists_new
    /\ tlog = "new"

EttNodes == 0..(EttN - 1)

\* The payloads of the test: node i carries i, the half-edge u->w carries 10u+w.
e(u, v) == 10 * u + v

\* build(n): n single nodes, created in order, so that node i is element i.
RECURSIVE ett_build(_)
ett_build(n) ==
    IF n = 0 THEN [ls |-> {}, d |-> <<>>]
    ELSE ett_new_elem(ett_build(n - 1), ETNode(n - 1)).t

InitETT ==
    /\ tt = ett_build(EttN)
    /\ refs = {}
    /\ elog = [op |-> "new", u |-> 0, w |-> 0, some |-> TRUE, a |-> EMPTY, b |-> EMPTY]
    /\ epanic = FALSE
    /\ d2c = d2c_new(N)
    /\ graph = {}
    /\ LctStart
    /\ ListStart

\* t.connect(nodes[u], nodes[w], e(u,w), e(w,u))
ETTConnect(u, w) ==
    /\ ~epanic
    /\ Len(tt.d) < EttN + 2 * MaxConnects \/ on_same_list(tt.ls, u, w)
    /\ LET r == ett_connect(tt, u, w, e(u, w), e(w, u))
       IN /\ tt' = r.t
          /\ refs' = IF r.some THEN refs \cup {[ref |-> r.ref, u |-> u, w |-> w]} ELSE refs
          /\ elog' = [op |-> "connect", u |-> u, w |-> w, some |-> r.some,
                      a |-> EMPTY, b |-> EMPTY]
          /\ epanic' = ~r.ok
          /\ UNCHANGED <<d2cVars, lctVars, listVars>>

\* t.disconnect(edge) on the EdgeRef of a live edge.
ETTDisconnect(er) ==
    /\ ~epanic
    /\ LET r == ett_disconnect(tt, er.ref)
       IN /\ tt' = r.t
          /\ refs' = refs \ {er}
          /\ elog' = [op |-> "disconnect", u |-> er.u, w |-> er.w, some |-> TRUE,
                      a |-> r.a, b |-> r.b]
          /\ epanic' = ~r.ok
          /\ UNCHANGED <<d2cVars, lctVars, listVars>>

\* t.reroot(nodes[u])
ETTReroot(u) ==
    /\ ~epanic
    /\ tt' = reroot_raw(tt, u)
    /\ elog' = [op |-> "reroot", u |-> u, w |-> u, some |-> TRUE, a |-> EMPTY, b |-> EMPTY]
    /\ UNCHANGED <<refs, epanic>>
    /\ UNCHANGED <<d2cVars, lctVars, listVars>>

NextETT ==
    \/ \E u, w \in EttNodes : ETTConnect(u, w)
    \/ \E er \in refs : ETTDisconnect(er)
    \/ \E u \in EttNodes : ETTReroot(u)

SpecETT == InitETT /\ [][NextETT]_vars

\* ------------------------------------------------------------ the solver
Nodes == 0..(N - 1)

\* The edges the caller adds: a triangle with a pendant vertex, which also
\* holds the path 0 - 1 - 2 - 3. Every pair of vertices is tried by remove_edge
\* and by the queries, every self-loop by add_edge.
EdgePool == {<<0, 1>>, <<1, 2>>, <<0, 2>>, <<2, 3>>}

InitD2C ==
    /\ d2c = d2c_new(N)
    /\ graph = {}
    /\ LctStart
    /\ ListStart
    /\ tt = ett_build(EttN)
    /\ refs = {}
    /\ elog = [op |-> "new", u |-> 0, w |-> 0, some |-> TRUE, a |-> EMPTY, b |-> EMPTY]
    /\ epanic = FALSE

\* solver.add_edge(u, v) while fewer than cap edge ids are in use; the reference
\* inserts the edge.
D2CAddEdgeUpTo(u, v, cap) ==
    /\ d2c.ok
    /\ u = v \/ Norm(u, v) \in EdgePool
    /\ Len(d2c.edge_info) < cap \/ u = v \/ Norm(u, v) \in DOMAIN d2c.e_to_id
    /\ LET r == add_edge(d2c, u, v)
       IN /\ d2c' = r.s
          /\ graph' = IF u = v THEN graph ELSE graph \cup {Norm(u, v)}
    /\ UNCHANGED <<ettVars, lctVars, listVars>>

D2CAddEdge(u, v) == D2CAddEdgeUpTo(u, v, MaxEdgeIds)

\* solver.remove_edge(u, v); the reference removes the edge.
D2CRemoveEdge(u, v) ==
    /\ d2c.ok
    /\ LET r == remove_edge(d2c, u, v)
       IN /\ d2c' = r.s
          /\ graph' = graph \ {Norm(u, v)}
    /\ UNCHANGED <<ettVars, lctVars, listVars>>

\* solver.is_connected(u, v): a query, &self.
D2CIsConnected(u, v) ==
    /\ d2c.ok
    /\ is_connected(d2c, u, v) \in BOOLEAN
    /\ UNCHANGED <<d2c, graph>>
    /\ UNCHANGED <<ettVars, lctVars, listVars>>

\* solver.is_in_2core(u)
D2CIsIn2Core(u) ==
    /\ d2c.ok
    /\ LET r == is_in_2core(d2c, u)
       IN d2c' = r.s
    /\ UNCHANGED graph
    /\ UNCHANGED <<ettVars, lctVars, listVars>>

\* solver.is_in_1core(u): a query, &self.
D2CIsIn1Core(u) ==
    /\ d2c.ok
    /\ is_in_1core(d2c, u) \in BOOLEAN
    /\ UNCHANGED <<d2c, graph>>
    /\ UNCHANGED <<ettVars, lctVars, listVars>>

NextD2C ==
    \/ \E u, v \in Nodes : D2CAddEdge(u, v)
    \/ \E u, v \in Nodes : D2CRemoveEdge(u, v)
    \/ \E u, v \in Nodes : D2CIsConnected(u, v)
    \/ \E u \in Nodes : D2CIsIn2Core(u)
    \/ \E u \in Nodes : D2CIsIn1Core(u)

SpecD2C == InitD2C /\ [][NextD2C]_vars

\* The solver with at most MaxRoundTripIds edge ids, for the properties that
\* try a further add_edge and remove_edge from every state.
NextRoundTrip ==
    \/ \E u, v \in Nodes : D2CAddEdgeUpTo(u, v, MaxRoundTripIds)
    \/ \E u, v \in Nodes : D2CRemoveEdge(u, v)
    \/ \E u \in Nodes : D2CIsIn2Core(u)

SpecRoundTrip == InitD2C /\ [][NextRoundTrip]_vars

\* ------------------------------------------- the solver over Treaps
\* FastDynamic2CoreSolver = D2CSolver<ETT<Treaps>, LCT<Treaps>>: lc_0 is an LCT
\* over Treaps. The lists of an ETT are never reversed, so its forests keep
\* the list semantics above.
d2c_new_fast(priorities, n) == [d2c_new(n) EXCEPT !.lc_0 = lct_treaps_new(priorities, n)]

\* The priorities Treaps::new draws for the vertices 0..N-1 of lc_0.
FastPriorities == [i \in 1..FastN |-> i]

FastNodes == 0..(FastN - 1)

InitFast ==
    /\ d2c = d2c_new_fast(FastPriorities, FastN)
    /\ graph = {}
    /\ LctStart
    /\ ListStart
    /\ tt = ett_build(EttN)
    /\ refs = {}
    /\ elog = [op |-> "new", u |-> 0, w |-> 0, some |-> TRUE, a |-> EMPTY, b |-> EMPTY]
    /\ epanic = FALSE

\* The calls that reach lc_0, with at most MaxFastIds edge ids.
NextFast ==
    \/ \E u, v \in FastNodes : D2CAddEdgeUpTo(u, v, MaxFastIds)
    \/ \E u, v \in FastNodes : D2CRemoveEdge(u, v)
    \/ \E u \in FastNodes : D2CIsIn2Core(u)

SpecFast == InitFast /\ [][NextFast]_vars

\* ------------------------------------------- the solver on two triangles
\* A solver of LevelsN vertices, large enough for remove_edge to promote extra
\* edges: the smaller side of a removed tree edge then holds a cycle.
LevelsNodes == 0..(LevelsN - 1)

\* The caller first builds the triangle 0 1 2, the path 3 4 5 and the bridge
\* 2 - 3 in this order, and afterwards removes and adds edges of the pool freely.
LevelsBuild == <<<<0, 1>>, <<1, 2>>, <<0, 2>>, <<3, 4>>, <<4, 5>>, <<2, 3>>>>

LevelsPool == {LevelsBuild[k] : k \in DOMAIN LevelsBuild} \cup {<<3, 5>>}

InitLevels ==
    /\ d2c = d2c_new(LevelsN)
    /\ graph = {}
    /\ LctStart
    /\ ListStart
    /\ tt = ett_build(EttN)
    /\ refs = {}
    /\ elog = [op |-> "new", u |-> 0, w |-> 0, some |-> TRUE, a |-> EMPTY, b |-> EMPTY]
    /\ epanic = FALSE

\* solver.add_edge(u, v) of an edge of the pool that is absent.
LevelsAddEdge(u, v) ==
    /\ d2c.ok
    /\ <<u, v>> \in LevelsPool \ graph
    /\ Len(d2c.edge_info) < MaxLevelsIds
    /\ Len(d2c.edge_info) < Len(LevelsBuild) => <<u, v>> = LevelsBuild[Len(d2c.edge_info) + 1]
    /\ d2c' = add_edge(d2c, u, v).s
    /\ graph' = graph \cup {<<u, v>>}
    /\ UNCHANGED <<ettVars, lctVars, listVars>>

\* solver.remove_edge(u, v) of an edge that is present.
LevelsRemoveEdge(u, v) ==
    /\ d2c.ok
    /\ <<u, v>> \in graph
    /\ Len(d2c.edge_info) >= Len(LevelsBuild)
    /\ d2c' = remove_edge(d2c, u, v).s
    /\ graph' = graph \ {<<u, v>>}
    /\ UNCHANGED <<ettVars, lctVars, listVars>>

NextLevels ==
    \/ \E u, v \in LevelsNodes : LevelsAddEdge(u, v)
    \/ \E u, v \in LevelsNodes : LevelsRemoveEdge(u, v)

SpecLevels == InitLevels /\ [][NextLevels]_vars

\* ------------------------------------------- stand-alone link cut tree
LctNodes == 0..(LctN - 1)

InitLCT ==
    /\ tt = ett_build(EttN)
    /\ refs = {}
    /\ elog = [op |-> "new", u |-> 0, w |-> 0, some |-> TRUE, a |-> EMPTY, b |-> EMPTY]
    /\ epanic = FALSE
    /\ d2c = d2c_new(N)
    /\ graph = {}
    /\ LctStart
    /\ ListStart

\* lct.link(u, v) and slow.link(u, v)
LCTLink(u, v) ==
    /\ ~lpanic
    /\ LET r == lct_link(lc, u, v)
       IN /\ lc' = r.lc
          /\ slow' = slow_link(slow, u, v).parent
          /\ llog' = [op |-> "link", u |-> u, v |-> v, some |-> r.ret, ret |-> EMPTY]
          /\ lpanic' = ~r.ok
    /\ UNCHANGED <<ettVars, d2cVars, listVars>>

\* lct.cut(u) and slow.cut(u)
LCTCut(u) ==
    /\ ~lpanic
    /\ LET r == lct_cut(lc, u)
       IN /\ lc' = r.lc
          /\ slow' = slow_cut(slow, u).parent
          /\ llog' = [op |-> "cut", u |-> u, v |-> u, some |-> r.ret # EMPTY, ret |-> r.ret]
          /\ lpanic' = ~r.ok
    /\ UNCHANGED <<ettVars, d2cVars, listVars>>

\* lct.reroot(u) and slow.reroot(u)
LCTReroot(u) ==
    /\ ~lpanic
    /\ LET r == lct_reroot(lc, u)
       IN /\ lc' = r.lc
          /\ slow' = slow_reroot(slow, u)
          /\ llog' = [op |-> "reroot", u |-> u, v |-> u, some |-> TRUE, ret |-> EMPTY]
          /\ lpanic' = ~r.ok
    /\ UNCHANGED <<ettVars, d2cVars, listVars>>

\* lct.root(u)
LCTRoot(u) ==
    /\ ~lpanic
    /\ LET r == lct_root(lc, u)
       IN /\ lc' = r.lc
          /\ llog' = [op |-> "root", u |-> u, v |-> u, some |-> TRUE, ret |-> r.ret]
          /\ lpanic' = ~r.ok
    /\ UNCHANGED <<slow, ettVars, d2cVars, listVars>>

\* lct.lca(u, v)
LCTLca(u, v) ==
    /\ ~lpanic
    /\ LET r == lct_lca(lc, u, v)
       IN /\ lc' = r.lc
          /\ llog' = [op |-> "lca", u |-> u, v |-> v, some |-> r.ret # EMPTY, ret |-> r.ret]
          /\ lpanic' = ~r.ok
    /\ UNCHANGED <<slow, ettVars, d2cVars, listVars>>

NextLCT ==
    \/ \E u, v \in LctNodes : LCTLink(u, v)
    \/ \E u \in LctNodes : LCTCut(u)
    \/ \E u \in LctNodes : LCTReroot(u)
    \/ \E u \in LctNodes : LCTRoot(u)
    \/ \E u, v \in LctNodes : LCTLca(u, v)

SpecLCT == InitLCT /\ [][NextLCT]_vars

\* ------------------------------- stand-alone link cut tree over Treaps
\* The priorities the vertices draw (rng.gen() of a generator seeded with a fixed
\* number): pairwise different, here increasing with the vertex. The code never
\* compares handles but for equality, so every other order of the priorities is
\* this one with the vertices renamed.
DrawnPriorities == [i \in 1..LctTreapsN |-> i]

LctTreapsNodes == 0..(LctTreapsN - 1)

InitLCTTreaps ==
    /\ tt = ett_build(EttN)
    /\ refs = {}
    /\ elog = [op |-> "new", u |-> 0, w |-> 0, some |-> TRUE, a |-> EMPTY, b |-> EMPTY]
    /\ epanic = FALSE
    /\ d2c = d2c_new(N)
    /\ graph = {}
    /\ lc = lct_treaps_new(DrawnPriorities, LctTreapsN)
    /\ slow = slow_new(LctTreapsN)
    /\ llog = [op |-> "new", u |-> 0, v |-> 0, some |-> TRUE, ret |-> EMPTY, calls |-> 0]
    /\ lpanic = FALSE
    /\ ListStart

\* lct.link(u, v) and slow.link(u, v)
LCTTreapsLink(u, v) ==
    /\ ~lpanic /\ llog.calls < MaxLctTreapsCalls
    /\ LET r == lct_link_treaps(lc, u, v)
       IN /\ lc' = r.lc
          /\ slow' = slow_link(slow, u, v).parent
          /\ llog' = [op |-> "link", u |-> u, v |-> v, some |-> r.ret, ret |-> EMPTY,
                    calls |-> llog.calls + 1]
          /\ lpanic' = ~r.ok
    /\ UNCHANGED <<ettVars, d2cVars, listVars>>

\* lct.cut(u) and slow.cut(u)
LCTTreapsCut(u) ==
    /\ ~lpanic /\ llog.calls < MaxLctTreapsCalls
    /\ LET r == lct_cut_treaps(lc, u)
       IN /\ lc' = r.lc
          /\ slow' = slow_cut(slow, u).parent
          /\ llog' = [op |-> "cut", u |-> u, v |-> u, some |-> r.ret # EMPTY, ret |-> r.ret,
                    calls |-> llog.calls + 1]
          /\ lpanic' = ~r.ok
    /\ UNCHANGED <<ettVars, d2cVars, listVars>>

\* lct.reroot(u) and slow.reroot(u)
LCTTreapsReroot(u) ==
    /\ ~lpanic /\ llog.calls < MaxLctTreapsCalls
    /\ LET r == lct_reroot_treaps(lc, u)
       IN /\ lc' = r.lc
          /\ slow' = slow_reroot(slow, u)
          /\ llog' = [op |-> "reroot", u |-> u, v |-> u, some |-> TRUE, ret |-> EMPTY,
                    calls |-> llog.calls + 1]
          /\ lpanic' = ~r.ok
    /\ UNCHANGED <<ettVars, d2cVars, listVars>>

\* lct.root(u)
LCTTreapsRoot(u) ==
    /\ ~lpanic /\ llog.calls < MaxLctTreapsCalls
    /\ LET r == lct_root_treaps(lc, u)
       IN /\ lc' = r.lc
          /\ llog' = [op |-> "root", u |-> u, v |-> u, some |-> TRUE, ret |-> r.ret,
                    calls |-> llog.calls + 1]
          /\ lpanic' = ~r.ok
    /\ UNCHANGED <<slow, ettVars, d2cVars, listVars>>

\* lct.lca(u, v)
LCTTreapsLca(u, v) ==
    /\ ~lpanic /\ llog.calls < MaxLctTreapsCalls
    /\ LET r == lct_lca_treaps(lc, u, v)
       IN /\ lc' = r.lc
          /\ llog' = [op |-> "lca", u |-> u, v |-> v, some |-> r.ret # EMPTY, ret |-> r.ret,
                    calls |-> llog.calls + 1]
          /\ lpanic' = ~r.ok
    /\ UNCHANGED <<slow, ettVars, d2cVars, listVars>>

NextLCTTreaps ==
    \/ \E u, v \in LctTreapsNodes : LCTTreapsLink(u, v)
    \/ \E u \in LctTreapsNodes : LCTTreapsCut(u)
    \/ \E u \in LctTreapsNodes : LCTTreapsReroot(u)
    \/ \E u \in LctTreapsNodes : LCTTreapsRoot(u)
    \/ \E u, v \in LctTreapsNodes : LCTTreapsLca(u, v)

SpecLCTTreaps == InitLCTTreaps /\ [][NextLCTTreaps]_vars

\* ------------------------------------------------------ stand-alone Treaps
\* Treaps<AggDigit> on its own; the reference lists stay empty.
Handles == 0..(Len(tr) - 1)
\* Priorities the random generator may hand out next: no two nodes draw the same.
Priorities == (1..MaxPriority) \ {tr[i].priority : i \in DOMAIN tr}
\* Digits written by mutate_data.
Digits == {7}

InitTreap ==
    /\ tt = ett_build(EttN)
    /\ refs = {}
    /\ elog = [op |-> "new", u |-> 0, w |-> 0, some |-> TRUE, a |-> EMPTY, b |-> EMPTY]
    /\ epanic = FALSE
    /\ d2c = d2c_new(N)
    /\ graph = {}
    /\ LctStart
    /\ ListStart

\* create(data): the element holds the digit idx + 1.
TreapCreate(priority) ==
    /\ Len(tr) < ListN
    /\ tr' = treap_create(tr, Len(tr) + 1, priority).t
    /\ tlog' = "create"
    /\ UNCHANGED <<sl, ettVars, d2cVars, lctVars>>

\* concat(u, v)
TreapConcat(u, v) ==
    /\ tr' = treap_concat(tr, u, v).t
    /\ tlog' = "concat"
    /\ UNCHANGED <<sl, ettVars, d2cVars, lctVars>>

\* split(u, l..r)
TreapSplit(u, l, r) ==
    /\ tr' = treap_split_lr(tr, u, l, r).t
    /\ tlog' = "split"
    /\ UNCHANGED <<sl, ettVars, d2cVars, lctVars>>

\* reverse(u)
TreapReverse(u) ==
    /\ tr' = treap_reverse(tr, u)
    /\ tlog' = "reverse"
    /\ UNCHANGED <<sl, ettVars, d2cVars, lctVars>>

\* mutate_data(u, |d| *d = data)
TreapMutate(u, data) ==
    /\ tr' = treap_mutate_data(tr, u, data)
    /\ tlog' = "mutate_data"
    /\ UNCHANGED <<sl, ettVars, d2cVars, lctVars>>

NextTreap ==
    \/ \E priority \in Priorities : TreapCreate(priority)
    \/ \E u, v \in Handles : TreapConcat(u, v)
    \/ \E u \in Handles : \E r \in 0..treap_len(tr, u) : \E l \in 0..r : TreapSplit(u, l, r)
    \/ \E u \in Handles : TreapReverse(u)
    \/ \E u \in Handles : \E data \in Digits : TreapMutate(u, data)

SpecTreap == InitTreap /\ [][NextTreap]_vars

\* ------------------------------------------- Treaps side by side with SlowLists
\* random_compare_with_slow: all elements are created first; every operation is
\* applied to both structures and is followed by the comparison block, whose
\* failed assert clears `ok`.
\* assert_data(l, u, data of the list x of SlowLists)
assert_data_at(t, s, x, i, cur_u) ==
  /\ treap_order(t, cur_u) = i - 1
  /\ treap_find_kth(t, x[1], i - 1) = cur_u
  /\ treap_data(t, cur_u) = s.d[x[i] + 1]
  /\ i = Len(x) => treap_is_last(t, cur_u)

RECURSIVE assert_data_from(_, _, _, _, _)
assert_data_from(t, s, x, i, cur_u) ==
  IF i > Len(x) THEN cur_u = EMPTY
  ELSE cur_u # EMPTY /\ assert_data_at(t, s, x, i, cur_u)
       /\ assert_data_from(t, s, x, i + 1, treap_next(t, cur_u))

assert_lists_data(t, s, x) ==
  /\ treap_len(t, x[1]) = Len(x)
  /\ treap_first(t, x[1]) # EMPTY
  /\ treap_is_first(t, treap_first(t, x[1]))
  /\ assert_data_from(t, s, x, 1, treap_first(t, x[1]))

\* The comparison block, for the list x of SlowLists.
compare_list(t, s, x) ==
  /\ treap_is_root(t, treap_root(t, x[1]))
  /\ \A u \in Range(x) : treap_root(t, u) = treap_root(t, x[1])
  /\ \A x2 \in s.ls \ {x} : \A u \in Range(x), v \in Range(x2) :
        ~treap_on_same_list(t, u, v)
  /\ assert_lists_data(t, s, x)
  /\ treap_total_agg(t, x[1]) = slow_lists_fold(s.d, x, 1, 0, Len(x), DigitDefault)
  /\ \A b \in 0..Len(x) : \A a \in 0..b :
        treap_range_agg_lr(t, x[1], a, b) = slow_lists_fold(s.d, x, 1, a, b, DigitDefault)

compare_with_slow(t, s) ==
  /\ s.ok
  /\ treap_total_size(t) = Len(s.d)
  /\ \A x \in s.ls : compare_list(t, s, x)

compared(t, s) == [s EXCEPT !.ok = compare_with_slow(t, s)]

InitCompare ==
    /\ tt = ett_build(EttN)
    /\ refs = {}
    /\ elog = [op |-> "new", u |-> 0, w |-> 0, some |-> TRUE, a |-> EMPTY, b |-> EMPTY]
    /\ epanic = FALSE
    /\ d2c = d2c_new(N)
    /\ graph = {}
    /\ LctStart
    /\ ListStart

\* assert_eq!(i, l.create(x)); sl.create(x)
CompareCreate(priority) ==
    /\ Len(tr) < ListN
    /\ tr' = treap_create(tr, Len(tr) + 1, priority).t
    /\ sl' = slow_lists_create(sl, Len(tr) + 1)
    /\ tlog' = "create"
    /\ UNCHANGED <<ettVars, d2cVars, lctVars>>

\* l.concat(u, v); sl.concat(u, v), u and v of two lists
CompareConcat(u, v) ==
    /\ Len(tr) = ListN /\ sl.ok
    /\ ~on_same_list(sl.ls, u, v)
    /\ tr' = treap_concat(tr, u, v).t
    /\ sl' = compared(tr', slow_lists_concat(sl, u, v))
    /\ tlog' = "concat"
    /\ UNCHANGED <<ettVars, d2cVars, lctVars>>

\* l.split(u, range); sl.split(u, range), range = a..b the two draws in order
CompareSplit(u, a, b) ==
    /\ Len(tr) = ListN /\ sl.ok
    /\ tr' = treap_split_lr(tr, u, a, b).t
    /\ sl' = compared(tr', slow_lists_split_lr(sl, u, a, b))
    /\ tlog' = "split"
    /\ UNCHANGED <<ettVars, d2cVars, lctVars>>

\* l.reverse(u); sl.reverse(u)
CompareReverse(u) ==
    /\ Len(tr) = ListN /\ sl.ok
    /\ tr' = treap_reverse(tr, u)
    /\ sl' = compared(tr', slow_lists_reverse(sl, u))
    /\ tlog' = "reverse"
    /\ UNCHANGED <<ettVars, d2cVars, lctVars>>

\* l.mutate_data(u, &f); sl.mutate_data(u, &f)
CompareMutate(u, data) ==
    /\ Len(tr) = ListN /\ sl.ok
    /\ tr' = treap_mutate_data(tr, u, data)
    /\ sl' = compared(tr', slow_lists_mutate_data(sl, u, data))
    /\ tlog' = "mutate_data"
    /\ UNCHANGED <<ettVars, d2cVars, lctVars>>

NextCompare ==
    \/ \E priority \in Priorities : CompareCreate(priority)
    \/ \E u, v \in Handles : CompareConcat(u, v)
    \/ \E u \in Handles : \E b \in 0..(len(sl.ls, u) - 1) : \E a \in 0..b :
          CompareSplit(u, a, b)
    \/ \E u \in Handles : CompareReverse(u)
    \/ \E u \in Handles : \E data \in Digits : CompareMutate(u, data)

SpecCompare == InitCompare /\ [][NextCompare]_vars

\* ------------------------------------------------ claims on the Euler tour tree
\* The forest the caller has built: one undirected edge per live EdgeRef.
RECURSIVE Closure(_, _)
Closure(S, E) ==
    LET S2 == S \cup {p[2] : p \in {q \in E : q[1] \in S}} \cup {p[1] : p \in {q \in E : q[2] \in S}}
    IN IF S2 = S THEN S ELSE Closure(S2, E)

EttEdges == {<<er.u, er.w>> : er \in refs}
EttComp(u) == Closure({u}, EttEdges)

\* The node elements of the list of u.
NodesOf(t, u) == {h \in Range(list(t.ls, u)) : ett_data(t, h).node}

\* C6: connect(u,w) returns None exactly when u and w are already in the same tree of
\* the forest built so far, and then leaves every sequence (and the set of live edges)
\* unchanged; otherwise it returns an EdgeRef of two new half-edge elements that lie in
\* the sequence of u.
C6_Step(u, w) ==
    ETTConnect(u, w) =>
        /\ (elog'.some = FALSE) <=> (w \in EttComp(u))
        /\ elog'.some = FALSE => (tt' = tt /\ refs' = refs)
        /\ elog'.some =>
              \E er \in refs' \ refs :
                 /\ er.u = u /\ er.w = w
                 /\ er.ref[1] >= Len(tt.d) /\ er.ref[2] >= Len(tt.d) /\ er.ref[1] # er.ref[2]
                 /\ {er.ref[1], er.ref[2]} \subseteq Range(list(tt'.ls, u))
C6_ConnectNoneIffSameTree == [][\A u, w \in EttNodes : C6_Step(u, w)]_vars

C6_Witness ==
    /\ elog.op = "connect" /\ elog.some = FALSE /\ elog.u # elog.w
    /\ ett_tree_size(tt, elog.u) = 3

\* C7: after a successful connect(u,w), u and w are connected, the merged tree holds
\* exactly the vertices of the two former trees, its tree_size is the sum of theirs,
\* and every other sequence is unchanged.
C7_Step(u, w) ==
    (ETTConnect(u, w) /\ elog'.some) =>
        /\ ett_is_connected(tt', u, w)
        /\ NodesOf(tt', u) = NodesOf(tt, u) \cup NodesOf(tt, w)
        /\ NodesOf(tt, u) \cap NodesOf(tt, w) = {}
        /\ ett_tree_size(tt', u) = ett_tree_size(tt, u) + ett_tree_size(tt, w)
        /\ \A s \in tt.ls : (u \notin Range(s) /\ w \notin Range(s)) => s \in tt'.ls
        /\ Cardinality(tt'.ls) = Cardinality(tt.ls) - 1
C7_ConnectMerges == [][\A u, w \in EttNodes : C7_Step(u, w)]_vars

C7_Witness ==
    /\ elog.op = "connect" /\ elog.some
    /\ ett_tree_size(tt, elog.u) = 3
    /\ ~is_first(tt.ls, elog.u)

\* C8: disconnect on the EdgeRef of a live edge leaves exactly two trees that partition
\* the vertices of the former tree, with the endpoints of the edge apart, the sizes
\* summing to the former size, both removed half-edge elements alone in a sequence of
\* their own, and every other sequence unchanged.
C8_Step(er) ==
    ETTDisconnect(er) =>
        LET A   == NodesOf(tt', er.u)
            B   == NodesOf(tt', er.w)
            old == NodesOf(tt, er.u)
        IN /\ A \cap B = {} /\ A \cup B = old
           /\ er.u \in A /\ er.w \in B
           /\ ~ett_is_connected(tt', er.u, er.w)
           /\ {s \in tt'.ls : Range(s) \cap old # {}} = {list(tt'.ls, er.u), list(tt'.ls, er.w)}
           /\ ett_tree_size(tt', er.u) + ett_tree_size(tt', er.w) = ett_tree_size(tt, er.u)
           /\ ett_tree_size(tt', er.u) = Cardinality(A) /\ ett_tree_size(tt', er.w) = Cardinality(B)
           /\ list(tt'.ls, er.ref[1]) = <<er.ref[1]>>
           /\ list(tt'.ls, er.ref[2]) = <<er.ref[2]>>
           /\ \A s \in tt.ls : er.u \notin Range(s) => s \in tt'.ls
           /\ epanic' = FALSE
C8_DisconnectSplits == [][\A er \in refs : C8_Step(er)]_vars

C8_Witness ==
    /\ elog.op = "disconnect"
    /\ ett_tree_size(tt, elog.u) + ett_tree_size(tt, elog.w) = 3
    /\ Cardinality(refs) = 1

\* C9 as stated: disconnect returns first the root of the tree now holding the u side
\* of the original connect(u,w), then the root of the tree holding the w side.
C9_Original ==
    elog.op = "disconnect" =>
        /\ elog.a = root(tt.ls, elog.u)
        /\ elog.b = root(tt.ls, elog.w)

\* C9 as amended: disconnect returns first the first element of the tree made of the
\* elements that lay outside the edge's two half-edges, then the first element of the
\* tree made of the elements that lay between them; that is the order (u side, w side)
\* exactly when the half-edge u->w preceded the half-edge w->u in the sequence, and the
\* order (w side, u side) otherwise (after a reroot to a vertex of the w side).
C9_Step(er) ==
    ETTDisconnect(er) =>
        LET s       == list(tt.ls, er.u)
            pa      == order(tt.ls, er.ref[1]) + 1
            pb      == order(tt.ls, er.ref[2]) + 1
            outside == {s[i] : i \in {k \in DOMAIN s : k < Min2(pa, pb) \/ k > Max2(pa, pb)}}
            inside  == {s[i] : i \in {k \in DOMAIN s : k > Min2(pa, pb) /\ k < Max2(pa, pb)}}
            uwFirst == pa < pb
        IN /\ Range(list(tt'.ls, elog'.a)) = outside
           /\ Range(list(tt'.ls, elog'.b)) = inside
           /\ is_first(tt'.ls, elog'.a) /\ is_first(tt'.ls, elog'.b)
           /\ uwFirst => (er.u \in outside /\ er.w \in inside)
           /\ ~uwFirst => (er.w \in outside /\ er.u \in inside)
C9_DisconnectOrder == [][\A er \in refs : C9_Step(er)]_vars

C9_Witness ==
    /\ elog.op = "disconnect"
    /\ elog.a = root(tt.ls, elog.w)
    /\ elog.b = root(tt.ls, elog.u)
    /\ ett_tree_size(tt, elog.u) = 2

\* C10: every sequence that holds a tree of k vertices has length 3k - 2 (k node
\* elements and two half-edge elements for each of the k - 1 live edges of the tree),
\* and tree_size(u) is the number of vertices of the tree of u in the forest built.
C10_TourLength ==
    \A u \in EttNodes :
        LET k == Cardinality(EttComp(u))
        IN /\ NodesOf(tt, u) = EttComp(u)
           /\ ett_subtree_size(tt, u) = k
           /\ len(tt.ls, u) = 3 * k - 2
           /\ ett_tree_size(tt, u) = k
           /\ Cardinality({er \in refs : {er.ref[1], er.ref[2]} \subseteq Range(list(tt.ls, u))})
                 = k - 1

C10_Witness ==
    /\ elog.op = "reroot" /\ ~is_first(tt.ls, 0)
    /\ ett_tree_size(tt, elog.u) = 3
    /\ Len(tt.d) = EttN + 2 * MaxConnects

\* The sequence q read from position k on, then from its start up to k.
Rotated(q, k) == SubSeq(q, k + 1, Len(q)) \o SubSeq(q, 1, k)

\* C35: reroot(u) of the node element u at position k of the sequence s of
\* length len turns s into s[k..len) ++ s[0..k): u becomes the first element and
\* the cyclic order is kept; nothing changes when u is first already, and the
\* elements that share a sequence are the same before and after.
C35_Step(u) ==
    ETTReroot(u) =>
        /\ tt'.ls = (tt.ls \ {list(tt.ls, u)}) \cup {Rotated(list(tt.ls, u), order(tt.ls, u))}
        /\ tt'.d = tt.d
        /\ is_first(tt'.ls, u)
        /\ is_first(tt.ls, u) => tt' = tt
        /\ {Range(x) : x \in tt'.ls} = {Range(x) : x \in tt.ls}
C35_RerootRotates == [][\A u \in EttNodes : C35_Step(u)]_vars

\* A tree of three vertices was rerooted into its child side: the tour starts
\* at the vertex of the call and the half-edge w->u of an edge now precedes u->w.
C35_Witness ==
    /\ elog.op = "reroot" /\ is_first(tt.ls, elog.u)
    /\ ett_tree_size(tt, elog.u) = 3
    /\ \E er \in refs :
          /\ er.ref[1] \in Range(list(tt.ls, elog.u))
          /\ order(tt.ls, er.ref[2]) < order(tt.ls, er.ref[1])

\* The sequence A u h_uw w C h_wu B made of q = A u B, u at position k, and of
\* qw = w C.
Spliced(q, k, uw, qw, wu) ==
    SubSeq(q, 1, k + 1) \o <<uw>> \o qw \o <<wu>> \o SubSeq(q, k + 2, Len(q))

\* The connect of er = (u, w) took the forest from t to t2.
ConnectSplices(t, t2, er) ==
    /\ t2.ls = (t.ls \ {list(t.ls, er.u), list(t.ls, er.w)})
                  \cup {Spliced(list(t.ls, er.u), order(t.ls, er.u), er.ref[1],
                                Rotated(list(t.ls, er.w), order(t.ls, er.w)), er.ref[2])}
    /\ Len(t2.d) = Len(t.d) + 2
    /\ SubSeq(t2.d, 1, Len(t.d)) = t.d
    /\ {er.ref[1], er.ref[2]} = {Len(t.d), Len(t.d) + 1}
    /\ ett_data(t2, er.ref[1]) = ETEdge(e(er.u, er.w), er.ref[2])
    /\ ett_data(t2, er.ref[2]) = ETEdge(e(er.w, er.u), er.ref[1])
    /\ first(t2.ls, er.u) = first(t.ls, er.u)

\* C36: a successful connect(u, w) on the sequences A u B of u and, rotated to
\* start at w, w C of w makes the one sequence A u h_uw w C h_wu B, the two new
\* half-edge elements referencing each other; the first element of the former
\* sequence of u is the first element of the result.
C36_Step(u, w) ==
    (ETTConnect(u, w) /\ elog'.some) =>
        /\ Cardinality(refs' \ refs) = 1
        /\ \A er \in refs' \ refs : er.u = u /\ er.w = w /\ ConnectSplices(tt, tt', er)
C36_ConnectSplices == [][\A u, w \in EttNodes : C36_Step(u, w)]_vars

\* The last connect spliced w into the middle of a tour (A and B are not
\* empty) that had itself been rotated before (the half-edge w->u of an older
\* edge precedes its u->w).
C36_Witness ==
    /\ elog.op = "connect" /\ elog.some
    /\ ~is_first(tt.ls, elog.u)
    /\ \E er \in refs :
          /\ er.u = elog.u /\ er.w = elog.w
          /\ order(tt.ls, er.ref[1]) = order(tt.ls, elog.u) + 1
          /\ ~is_last(tt.ls, er.ref[2])
          /\ \E er2 \in refs \ {er} :
                /\ er2.ref[1] \in Range(list(tt.ls, elog.u))
                /\ order(tt.ls, er2.ref[2]) < order(tt.ls, er2.ref[1])

\* The sequence x of the tree t holds a node element.
HoldsNode(t, x) == \E k \in DOMAIN x : ett_data(t, x[k]).node

\* C40: after any sequence of connect, disconnect and reroot, the first element
\* of every sequence that holds a node element is a node element, and the two
\* handles the last disconnect returned are node elements, never half-edges.
C40_FirstIsNode ==
    ~epanic =>
        /\ \A x \in tt.ls : HoldsNode(tt, x) => ett_data(tt, x[1]).node
        /\ elog.op = "disconnect" =>
               ett_data(tt, elog.a).node /\ ett_data(tt, elog.b).node

\* ------------------------------------------------------ claims on the solver
\* The naive reference: component, degree and 2-core of the graph of the edges
\* present.
Comp(u) == Closure({u}, graph)

Degree(u) == Cardinality({p \in graph : u \in {p[1], p[2]}})

\* Iterative leaf peeling: every vertex of degree <= 1 is deleted, until none is left.
RECURSIVE Peel(_, _)
Peel(V, E) ==
    LET low == {x \in V : Cardinality({p \in E : x \in {p[1], p[2]}}) <= 1}
    IN IF low = {} THEN V
       ELSE Peel(V \ low, {p \in E : p[1] \notin low /\ p[2] \notin low})

TwoCore == Peel(Nodes, graph)

\* Edge ids of edges that were removed: registered in edge_info, absent from e_to_id.
RemovedIds == {i \in 0..(Len(d2c.edge_info) - 1) : \A p \in DOMAIN d2c.e_to_id : d2c.e_to_id[p] # i}

\* C1: after any sequence of add_edge / remove_edge calls (no assert of the
\* solver fails, and) is_connected(u, v) is true exactly when u and v lie in the
\* same connected component of the graph of the edges present.
C1_Connectivity ==
    /\ d2c.ok
    /\ \A u, v \in Nodes : is_connected(d2c, u, v) <=> (v \in Comp(u))

\* A tree edge was removed and its endpoints are still connected (a replacement
\* edge was found), while some vertex is in another component.
C1_Witness ==
    \E i \in RemovedIds :
        /\ d2c.edge_info[i + 1].levels.some
        /\ d2c.edge_info[i + 1].e \notin graph
        /\ is_connected(d2c, d2c.edge_info[i + 1].e[1], d2c.edge_info[i + 1].e[2])
        /\ \E w \in Nodes : ~is_connected(d2c, d2c.edge_info[i + 1].e[1], w)

C3_OneCore ==
    \A u \in Nodes :
        /\ is_in_1core(d2c, u) <=> (Degree(u) >= 1)
        /\ is_in_2core(d2c, u).ret => is_in_1core(d2c, u)

\* A vertex lost its last edge by remove_edge, another vertex still has one.
C3_Witness ==
    /\ \E i \in RemovedIds :
          /\ Degree(d2c.edge_info[i + 1].e[1]) = 0
          /\ ~is_in_1core(d2c, d2c.edge_info[i + 1].e[1])
    /\ \E w \in Nodes : Degree(w) >= 1 /\ is_in_1core(d2c, w)

\* C4: add_edge(u, v) of an edge that is present (in either orientation),
\* add_edge(u, u), and remove_edge(u, v) of an edge that is absent return false
\* and leave the whole solver unchanged.
C4_RejectedCalls ==
    \A u, v \in Nodes :
        /\ (u = v \/ Norm(u, v) \in graph) => add_edge(d2c, u, v) = [s |-> d2c, ret |-> FALSE]
        /\ Norm(u, v) \notin graph => remove_edge(d2c, u, v) = [s |-> d2c, ret |-> FALSE]

\* An edge is present, given with its greater endpoint first, and an edge that
\* was present is absent again: both calls are rejected.
C4_Witness ==
    /\ \E p \in graph : add_edge(d2c, p[2], p[1]) = [s |-> d2c, ret |-> FALSE]
    /\ \E i \in RemovedIds :
          /\ d2c.edge_info[i + 1].e \notin graph
          /\ ~remove_edge(d2c, d2c.edge_info[i + 1].e[2], d2c.edge_info[i + 1].e[1]).ret

\* What the queries answer in the solver s.
Answers(s) ==
    [conn  |-> [pr \in Nodes \X Nodes |-> is_connected(s, pr[1], pr[2])],
     core1 |-> [u \in Nodes |-> is_in_1core(s, u)],
     core2 |-> [u \in Nodes |-> is_in_2core(s, u).ret]]

\* add_edge(u, v) followed immediately by remove_edge(u, v).
AddThenRemove(s, u, v) == remove_edge(add_edge(s, u, v).s, u, v)

RoundTripRestores(r, add_ret, ans) ==
    add_ret /\ r.ret /\ r.s.ok /\ Answers(r.s) = ans

\* The round trips of every absent edge, given in either orientation.
RoundTripsRestore(s, ans) ==
    \A u, v \in Nodes :
        (u < v /\ <<u, v>> \notin graph) =>
            /\ RoundTripRestores(AddThenRemove(s, u, v), add_edge(s, u, v).ret, ans)
            /\ RoundTripRestores(AddThenRemove(s, v, u), add_edge(s, v, u).ret, ans)

LiveIds == {d2c.e_to_id[p] : p \in DOMAIN d2c.e_to_id}
TreeIds == {i \in LiveIds : ~is_extra(d2c.edge_info[i + 1])}
ExtraIds == {i \in LiveIds : is_extra(d2c.edge_info[i + 1])}
EdgeLevel(i) == d2c.edge_info[i + 1].level
EdgeEnds(i) == d2c.edge_info[i + 1].e
LevelIndices == 0..(NumLevels(d2c) - 1)
\* The vertices of the solver: new(n) creates one lc_0 vertex each.
SolverNodes == 0..(Len(d2c.lc_0.parent) - 1)

\* The tours of the forest of level l: the lists that hold a vertex. A half-edge
\* alone in its list belongs to an edge that was disconnected.
Tours(l) == {x \in Ett(d2c, l).ls : \E k \in DOMAIN x : ett_data(Ett(d2c, l), x[k]).node}
HalfEdges(l, x) == {k \in DOMAIN x : ~ett_data(Ett(d2c, l), x[k]).node}
StoredIds(l) ==
    UNION {{ett_data(Ett(d2c, l), x[k]).data.e_id : k \in HalfEdges(l, x)} : x \in Tours(l)}

\* The vertices of the tree of u in the forest of level l.
LevelComp(l, u) ==
    {ett_data(Ett(d2c, l), h).data.idx : h \in NodesOf(Ett(d2c, l), levels(l, u))}

TreeEdgesFrom(l) == {EdgeEnds(i) : i \in {j \in TreeIds : EdgeLevel(j) >= l}}
LiveEdgesFrom(l) == {EdgeEnds(i) : i \in {j \in LiveIds : EdgeLevel(j) >= l}}

\* C21: after every add_edge / remove_edge (and is_in_2core), at every level l the
\* edges stored in ett[l] are exactly the live tree edges of level >= l, each tour
\* of k vertices holds 2(k - 1) half-edges and spans exactly the vertices those
\* edges join (a forest), and two vertices joined by a path of live edges of
\* level >= l, tree or extra, are in one tree of ett[l].
C21_LevelForests ==
    \A l \in LevelIndices :
        /\ StoredIds(l) = {j \in TreeIds : EdgeLevel(j) >= l}
        /\ \A x \in Tours(l) :
              Cardinality(HalfEdges(l, x)) = 2 * (Cardinality(DOMAIN x \ HalfEdges(l, x)) - 1)
        /\ \A u \in SolverNodes :
              /\ LevelComp(l, u) = Closure({u}, TreeEdgesFrom(l))
              /\ Closure({u}, LiveEdgesFrom(l)) \subseteq LevelComp(l, u)

\* A tree edge of level 1 and an extra edge of level 1 are live, after a tree edge
\* was removed: ett[1] holds a tree of two vertices or more.
C21_Witness ==
    /\ RemovedIds # {}
    /\ \E i \in TreeIds : EdgeLevel(i) = 1
    /\ \E i \in ExtraIds : EdgeLevel(i) = 1
    /\ \E u \in SolverNodes : Cardinality(LevelComp(1, u)) >= 2

\* The least k with 2^k >= n.
CeilLog2(n) == CHOOSE k \in 0..n : 2 ^ k >= n /\ \A j \in 0..(k - 1) : 2 ^ j < n

\* C22: after every add_edge / remove_edge the solver has ceil(log2 n) + 1 levels,
\* the level of every live edge is one of them, and no call has promoted an edge
\* of the last level (which would index ett and levels out of range and is
\* recorded in ok).
C22_LevelsInRange ==
    /\ d2c.ok
    /\ NumLevels(d2c) = CeilLog2(Cardinality(SolverNodes)) + 1
    /\ \A i \in LiveIds : EdgeLevel(i) \in LevelIndices

\* A promoted edge sits on the highest level a solver of N vertices can reach.
C22_Witness ==
    /\ d2c.ok
    /\ RemovedIds # {}
    /\ \E i \in LiveIds : EdgeLevel(i) = NumLevels(d2c) - 2

\* The handles of the half-edges of edge i in the tours of ett[l].
HalfEdgesOf(l, i) ==
    UNION {{x[k] : k \in {j \in HalfEdges(l, x) : ett_data(Ett(d2c, l), x[j]).data.e_id = i}}
           : x \in Tours(l)}

EdgeRefs(i) == d2c.edge_info[i + 1].levels.v

\* C23: after every add_edge / remove_edge a live tree edge of level l holds
\* l + 1 EdgeRefs, the j-th being the two half-edges of the edge in ett[j], and
\* has no half-edge in a higher level; a live extra edge holds no EdgeRef and
\* has no half-edge in any level.
C23_EdgeRefs ==
    /\ \A i \in TreeIds :
          /\ Len(EdgeRefs(i)) = EdgeLevel(i) + 1
          /\ \A l \in LevelIndices :
                IF l <= EdgeLevel(i)
                THEN /\ EdgeRefs(i)[l + 1][1] # EdgeRefs(i)[l + 1][2]
                     /\ HalfEdgesOf(l, i) = {EdgeRefs(i)[l + 1][1], EdgeRefs(i)[l + 1][2]}
                ELSE HalfEdgesOf(l, i) = {}
    /\ \A i \in ExtraIds :
          /\ EdgeRefs(i) = <<>>
          /\ \A l \in LevelIndices : HalfEdgesOf(l, i) = {}

\* After a removal a tree edge and an extra edge are both on level 1.
C23_Witness ==
    /\ RemovedIds # {}
    /\ \E i \in TreeIds : EdgeLevel(i) = 1 /\ Len(EdgeRefs(i)) = 2
    /\ \E i \in ExtraIds : EdgeLevel(i) = 1
    /\ \E i \in TreeIds : EdgeLevel(i) = 0

\* The node payload of vertex u in ett[l].
NodeData(l, u) == ett_data(Ett(d2c, l), levels(l, u)).data

\* The live extra edges of level l incident to u.
ExtrasOf(u, l) == {i \in ExtraIds : EdgeLevel(i) = l /\ u \in {EdgeEnds(i)[1], EdgeEnds(i)[2]}}

\* The sum of f over the finite set S.
RECURSIVE SumOver(_, _)
SumOver(f, S) ==
    IF S = {} THEN 0
    ELSE LET x == CHOOSE y \in S : TRUE IN f[x] + SumOver(f, S \ {x})

\* The aggregate of the whole tour x of ett[l].
TourAgg(l, x) == range_agg_fold(Ett(d2c, l), x, 0, Len(x), AgDefault)

\* The vertices whose node element lies in the tour x of ett[l].
TourNodes(l, x) ==
    {ett_data(Ett(d2c, l), x[k]).data.idx : k \in DOMAIN x \ HalfEdges(l, x)}

\* C25: after every add_edge / remove_edge, for every vertex u and level l the
\* extra_edges counter of u's node in ett[l] is the size of extras_index[(u, l)],
\* which holds exactly the live extra edges of level l incident to u; the
\* any_extra_edges counter is the sum of these sizes over all levels at level
\* 0 and 0 above; and the aggregate of every tree is the sum of the counters
\* of its vertices.
C25_ExtraCounters ==
    /\ \A u \in SolverNodes : \A l \in LevelIndices :
          /\ ExtrasAt(d2c, u, l) = ExtrasOf(u, l)
          /\ NodeData(l, u).idx = u
          /\ NodeData(l, u).extra_edges = Cardinality(ExtrasOf(u, l))
          /\ NodeData(l, u).any_extra_edges =
                 IF l = 0
                 THEN SumOver([j \in LevelIndices |-> Cardinality(ExtrasOf(u, j))], LevelIndices)
                 ELSE 0
    /\ \A p \in DOMAIN d2c.u_level_to_extras : p[1] \in SolverNodes /\ p[2] \in LevelIndices
    /\ \A l \in LevelIndices : \A x \in Tours(l) :
          /\ TourAgg(l, x).total_extra_edges =
                 SumOver([u \in SolverNodes |-> NodeData(l, u).extra_edges], TourNodes(l, x))
          /\ TourAgg(l, x).total_any_extra_edges =
                 SumOver([u \in SolverNodes |-> NodeData(l, u).any_extra_edges], TourNodes(l, x))

\* A vertex has an extra edge on level 1, counted at level 1 and in
\* any_extra_edges at level 0, while another vertex has one on level 0.
C25_Witness ==
    /\ \E u \in SolverNodes :
          /\ ExtrasOf(u, 1) # {}
          /\ NodeData(1, u).extra_edges = 1
          /\ NodeData(0, u).extra_edges = 0
          /\ NodeData(0, u).any_extra_edges = 1
    /\ \E w \in SolverNodes : ExtrasOf(w, 0) # {}

\* The payloads of the half-edges in the tours of ett[l].
HalfEdgeData(l) ==
    UNION {{ett_data(Ett(d2c, l), x[k]).data : k \in HalfEdges(l, x)} : x \in Tours(l)}

\* C26: after every add_edge / remove_edge, every half-edge in a tour of ett[j]
\* belongs to a live tree edge, carries the level of that edge's record, and
\* that level is at least j.
C26_PayloadLevels ==
    \A j \in LevelIndices : \A p \in HalfEdgeData(j) :
        /\ p.e_id \in TreeIds
        /\ p.level = EdgeLevel(p.e_id)
        /\ p.level >= j

\* A tree edge promoted to level 1 has its half-edges in ett[0] and in ett[1].
C26_Witness ==
    /\ RemovedIds # {}
    /\ \E i \in TreeIds :
          /\ EdgeLevel(i) = 1
          /\ \E p \in HalfEdgeData(0) : p.e_id = i /\ p.level = 1
          /\ \E p \in HalfEdgeData(1) : p.e_id = i /\ p.level = 1

\* The ids live in the solver s.
LiveIdsOf(s) == {s.e_to_id[p] : p \in DOMAIN s.e_to_id}

\* One call takes the solver from s to t: an id handed out by the call starts
\* at level 0, an id live before and after keeps its level or gains exactly
\* one, and an extra edge that became a tree edge keeps its level.
C27_Step(s, t) ==
    /\ \A i \in LiveIdsOf(t) \ LiveIdsOf(s) :
          /\ i >= Len(s.edge_info)
          /\ t.edge_info[i + 1].level = 0
    /\ \A i \in LiveIdsOf(t) \cap LiveIdsOf(s) :
          /\ t.edge_info[i + 1].e = s.edge_info[i + 1].e
          /\ t.edge_info[i + 1].level \in {s.edge_info[i + 1].level, s.edge_info[i + 1].level + 1}
          /\ (is_extra(s.edge_info[i + 1]) /\ ~is_extra(t.edge_info[i + 1]))
                 => t.edge_info[i + 1].level = s.edge_info[i + 1].level

\* C27: from the add_edge that inserts an edge to the remove_edge that deletes
\* it, the level in the edge's record starts at 0, never decreases, rises by
\* exactly 1 when it changes, and is kept when the extra edge becomes the
\* replacement tree edge.
C27_LevelsOnlyRise == [][C27_Step(d2c, d2c')]_vars

\* The edge 3 - 5, added seventh, is a tree edge of level 1 after the bridge
\* and the edge 3 - 4 were removed.
C27_Witness ==
    /\ {3, 5} \subseteq RemovedIds
    /\ 6 \in TreeIds /\ EdgeEnds(6) = <<3, 5>> /\ EdgeLevel(6) = 1
    /\ 4 \in TreeIds /\ EdgeLevel(4) = 1

\* remove_edge of the live tree edge i up to line 557: the solver with the
\* edge disconnected at its levels and the smaller sides, [s, smalls].
RemovalCut(i) ==
    cut_levels(lc_rerooted(d2c, EdgeEnds(i)[1], EdgeEnds(i)[2],
                           lc_0_reroot(d2c.lc_0, EdgeEnds(i)[1])),
               EdgeRefs(i), 0, EdgeEnds(i)[1], EdgeEnds(i)[2], <<>>)

\* The solver after remove_edge of the live edge i.
Removal(i) == remove_edge(d2c, EdgeEnds(i)[1], EdgeEnds(i)[2]).s

\* The vertices of the tree of the element h in ett[l] of the solver s.
SideOf(s, l, h) == {ett_data(Ett(s, l), x).data.idx : x \in NodesOf(Ett(s, l), h)}

\* The vertices of small[l] after the disconnects cl.
SmallSide(cl, l) == SideOf(cl.s, l, cl.smalls[l + 1])

\* The live ids whose level differs between the solvers s and t.
Promoted(s, t) ==
    {j \in LiveIdsOf(s) \cap LiveIdsOf(t) : s.edge_info[j + 1].level # t.edge_info[j + 1].level}

\* small[l] is one of the two sides of the disconnect at level l and its
\* tree_size is at most that of the side of either endpoint.
SmallIsSmaller(cl, l, u, v) ==
    /\ SmallSide(cl, l) \in {SideOf(cl.s, l, levels(l, u)), SideOf(cl.s, l, levels(l, v))}
    /\ SideOf(cl.s, l, levels(l, u)) # SideOf(cl.s, l, levels(l, v))
    /\ \A w \in {u, v} :
          ett_tree_size(Ett(cl.s, l), cl.smalls[l + 1])
              <= ett_tree_size(Ett(cl.s, l), levels(l, w))

\* remove_edge of the tree edge i, with cl its disconnects and t its result.
RemovalPromotesInSmall(i, cl, t) ==
    /\ Len(cl.smalls) = EdgeLevel(i) + 1
    /\ \A l \in 0..EdgeLevel(i) : SmallIsSmaller(cl, l, EdgeEnds(i)[1], EdgeEnds(i)[2])
    /\ \A j \in Promoted(d2c, t) :
          /\ EdgeLevel(j) <= EdgeLevel(i)
          /\ t.edge_info[j + 1].level = EdgeLevel(j) + 1
          /\ {EdgeEnds(j)[1], EdgeEnds(j)[2]} \subseteq SmallSide(cl, EdgeLevel(j))

\* C28: in remove_edge of a tree edge of level l0, at every level l <= l0 the
\* tree_size of small[l] is at most that of the other side of the disconnect,
\* and every edge the call promotes from level l to l + 1 has both endpoints
\* in small[l].
C28_PromotionsInSmall ==
    \A i \in TreeIds : RemovalPromotesInSmall(i, RemovalCut(i), Removal(i))

\* Removing some tree edge promotes a tree edge and an extra edge.
C28_Witness ==
    \E i \in TreeIds :
        /\ Promoted(d2c, Removal(i)) \cap TreeIds # {}
        /\ Promoted(d2c, Removal(i)) \cap ExtraIds # {}

\* The live edges of level l of the solver s with an endpoint in the vertex
\* set V: the tree edges and the extra edges.
TreeEdgesAt(s, l, V) ==
    {j \in LiveIdsOf(s) : /\ ~is_extra(s.edge_info[j + 1])
                          /\ s.edge_info[j + 1].level = l
                          /\ {s.edge_info[j + 1].e[1], s.edge_info[j + 1].e[2]} \cap V # {}}

ExtraEdgesAt(s, l, V) ==
    {j \in LiveIdsOf(s) : /\ is_extra(s.edge_info[j + 1])
                          /\ s.edge_info[j + 1].level = l
                          /\ {s.edge_info[j + 1].e[1], s.edge_info[j + 1].e[2]} \cap V # {}}

\* The phases of remove_edge from level l down, lines 560-611, started in the
\* solver s: when the loop of the tree edges ends (its search returned None)
\* small[l] has no tree edge of level l, and when the loop of the extra edges
\* ends without a replacement (its search returned None) small[l] has no
\* extra edge of level l either.
RECURSIVE PhasesComplete(_, _, _, _, _)

PhaseEnded(r, l, cl, u, v) ==
    \/ r.done
    \/ /\ r.s.ok
       /\ find_level_i_tree_edge(r.s, l, cl.smalls[l + 1]).ret = EMPTY
       /\ find_level_i_extra_edge(r.s, l, cl.smalls[l + 1]).ret = EMPTY
       /\ TreeEdgesAt(r.s, l, SmallSide(cl, l)) = {}
       /\ ExtraEdgesAt(r.s, l, SmallSide(cl, l)) = {}
       /\ PhasesComplete(r.s, l - 1, cl, u, v)

TreeEdgesPromoted(mid, l, cl, u, v) ==
    /\ mid.ok
    /\ find_level_i_tree_edge(mid, l, cl.smalls[l + 1]).ret = EMPTY
    /\ TreeEdgesAt(mid, l, SmallSide(cl, l)) = {}
    /\ PhaseEnded(try_extra_edges(mid, l, cl.smalls[l + 1], u, v), l, cl, u, v)

PhasesComplete(s, l, cl, u, v) ==
    \/ l < 0
    \/ TreeEdgesPromoted(promote_tree_edges(s, l, cl.smalls[l + 1]), l, cl, u, v)

\* remove_edge of the live tree edge i from line 558 on.
SearchesComplete(i, cl) ==
    PhasesComplete(rem_edge_id(cl.s, i), Len(cl.smalls) - 1, cl, EdgeEnds(i)[1], EdgeEnds(i)[2])

\* C29: in remove_edge of a tree edge the guided searches are complete:
\* find_level_i_tree_edge(l, small[l]) returns None only when small[l] holds no
\* tree edge of level l, find_level_i_extra_edge(l, small[l]) only when no vertex
\* of small[l] has an extra edge of level l, so a phase that ends without a
\* replacement leaves no live edge of level l with an endpoint in small[l].
C29_SearchesComplete == \A i \in TreeIds : SearchesComplete(i, RemovalCut(i))

\* Removing a tree edge of level 1 finds nothing at level 1 and its
\* replacement among the extra edges of level 0.
C29_Witness ==
    \E i \in TreeIds :
        /\ EdgeLevel(i) = 1
        /\ \E j \in ExtraIds :
              /\ EdgeLevel(j) = 0
              /\ j \in LiveIdsOf(Removal(i))
              /\ ~is_extra(Removal(i).edge_info[j + 1])

\* The loop of the tree edges at level l, lines 563-567, replayed from the
\* solver s: every edge it finds has its ends in different trees of
\* ett[l + 1], add_level_to_edge completes and the edge then has l + 2 EdgeRefs.
RECURSIVE PromotionsConnect(_, _, _)

PromotionConnects(s, l, small, f_id, t) ==
    /\ l + 1 < NumLevels(s)
    /\ ~ett_is_connected(Ett(s, l + 1), levels(l + 1, s.edge_info[f_id + 1].e[1]),
                         levels(l + 1, s.edge_info[f_id + 1].e[2]))
    /\ Len(s.edge_info[f_id + 1].levels.v) = l + 1
    /\ t.ok
    /\ ett_is_connected(Ett(t, l + 1), levels(l + 1, s.edge_info[f_id + 1].e[1]),
                        levels(l + 1, s.edge_info[f_id + 1].e[2]))
    /\ Len(t.edge_info[f_id + 1].levels.v) = l + 2
    /\ PromotionsConnect(t, l, small)

TreeEdgePromotes(s, l, small, f) ==
    /\ f.ok
    /\ f.ret # EMPTY => PromotionConnects(s, l, small, f.ret, add_level_to_edge(s, f.ret))

PromotionsConnect(s, l, small) ==
    s.ok /\ TreeEdgePromotes(s, l, small, find_level_i_tree_edge(s, l, small))

\* The levels of remove_edge from l down, lines 560-611.
RECURSIVE LevelsConnect(_, _, _, _, _)

LevelConnected(r, l, cl, u, v) == r.done \/ LevelsConnect(r.s, l - 1, cl, u, v)

LevelsConnect(s, l, cl, u, v) ==
    \/ l < 0
    \/ /\ PromotionsConnect(s, l, cl.smalls[l + 1])
       /\ LevelConnected(try_extra_edges(promote_tree_edges(s, l, cl.smalls[l + 1]),
                                         l, cl.smalls[l + 1], u, v),
                         l, cl, u, v)

\* C31: whenever remove_edge promotes a tree edge (a, b) of level l found in
\* small[l], a and b are not connected in ett[l + 1] before, the connect of
\* add_level_to_edge succeeds and the edge then holds l + 2 EdgeRefs.
C31_PromotionConnects ==
    d2c.ok => \A i \in TreeIds :
                 LevelsConnect(rem_edge_id(RemovalCut(i).s, i), Len(RemovalCut(i).smalls) - 1,
                               RemovalCut(i), EdgeEnds(i)[1], EdgeEnds(i)[2])

\* A removal that promoted a tree edge from level 0 to level 1.
C31_Witness ==
    /\ d2c.ok
    /\ \E i \in TreeIds :
          /\ Removal(i).ok
          /\ \E j \in Promoted(d2c, Removal(i)) \cap TreeIds :
                /\ EdgeLevel(j) = 0
                /\ Len(Removal(i).edge_info[j + 1].levels.v) = 2

\* The payload of the element x of the forest of level k of s, with dc taken
\* from extra_edges and da from any_extra_edges.
NodeLess(s, k, x, dc, da) ==
    [s.ett[k + 1].d[x + 1] EXCEPT !.data.extra_edges = @ - dc, !.data.any_extra_edges = @ - da]

\* The forest of level k of t is that of s, but for the counters of the
\* vertices in W: extra_edges one less at level l, any_extra_edges one less
\* at level 0.
ForestKept(s, t, k, l, W) ==
    /\ t.ett[k + 1].ls = s.ett[k + 1].ls
    /\ DOMAIN t.ett[k + 1].d = DOMAIN s.ett[k + 1].d
    /\ \A x \in 0..(Len(s.ett[k + 1].d) - 1) :
          t.ett[k + 1].d[x + 1] =
              IF x \in {levels(k, w) : w \in W}
              THEN NodeLess(s, k, x, IF k = l THEN 1 ELSE 0, IF k = 0 THEN 1 ELSE 0)
              ELSE s.ett[k + 1].d[x + 1]

\* remove_edge took the live extra edge i = (u, v) of level l out of s; r is
\* its result.
ExtraRemoved(s, i, l, u, v, r) ==
    /\ r.ret
    /\ r.s.ok
    /\ DOMAIN r.s.e_to_id = DOMAIN s.e_to_id \ {Norm(u, v)}
    /\ \A p \in DOMAIN r.s.e_to_id : r.s.e_to_id[p] = s.e_to_id[p]
    /\ DOMAIN r.s.u_level_to_extras = DOMAIN s.u_level_to_extras
    /\ \A p \in DOMAIN s.u_level_to_extras :
          r.s.u_level_to_extras[p] =
              IF p \in {<<u, l>>, <<v, l>>} THEN s.u_level_to_extras[p] \ {i}
              ELSE s.u_level_to_extras[p]
    /\ i \in s.u_level_to_extras[<<u, l>>] \cap s.u_level_to_extras[<<v, l>>]
    /\ \A k \in 0..(NumLevels(s) - 1) : ForestKept(s, r.s, k, l, {u, v})
    /\ r.s.lc_0 = s.lc_0
    /\ r.s.edge_info = s.edge_info

\* C33: remove_edge(u, v) of a live extra edge of level l returns true, takes
\* the edge out of the edge index and of extras_index[(u, l)] and [(v, l)],
\* decrements extra_edges at level l and any_extra_edges at level 0 of u and v
\* by one each, and leaves every forest, lc0 and the records, levels and
\* counters of the other edges and vertices as they were.
C33_ExtraEdgeRemoved ==
    d2c.ok => \A i \in ExtraIds :
                 /\ ExtraRemoved(d2c, i, EdgeLevel(i), EdgeEnds(i)[1], EdgeEnds(i)[2],
                                 remove_edge(d2c, EdgeEnds(i)[1], EdgeEnds(i)[2]))
                 /\ remove_edge(d2c, EdgeEnds(i)[2], EdgeEnds(i)[1])
                        = remove_edge(d2c, EdgeEnds(i)[1], EdgeEnds(i)[2])

\* An extra edge of level 1 is removed while another extra edge stays.
C33_Witness ==
    /\ d2c.ok
    /\ \E i, j \in ExtraIds :
          /\ i # j
          /\ EdgeLevel(i) = 1
          /\ remove_edge(d2c, EdgeEnds(i)[1], EdgeEnds(i)[2]).ret
          /\ i \notin LiveIdsOf(Removal(i))
          /\ is_extra(Removal(i).edge_info[j + 1])

\* C37: after every add_edge / remove_edge, at every level l every tree of
\* ett[l] with more than one vertex has at most floor(n / 2^l) vertices.
C37_TreeSizes ==
    d2c.ok => \A l \in LevelIndices : \A u \in SolverNodes :
                 Cardinality(LevelComp(l, u)) > 1 =>
                     Cardinality(LevelComp(l, u)) <= Cardinality(SolverNodes) \div (2 ^ l)

\* A tree of level 1 has all the floor(n / 2) vertices it may have, next to a
\* removed id.
C37_Witness ==
    /\ d2c.ok
    /\ RemovedIds # {}
    /\ \E u \in SolverNodes :
          /\ Cardinality(LevelComp(1, u)) > 1
          /\ Cardinality(LevelComp(1, u)) = Cardinality(SolverNodes) \div 2

\* The number of entries of level l that extras_index holds for the vertices
\* of V: what the loop of the extra edges searches.
RECURSIVE IndexedExtras(_, _, _)
IndexedExtras(s, l, V) ==
    IF V = {} THEN 0
    ELSE Cardinality(ExtrasAt(s, CHOOSE w \in V : TRUE, l))
             + IndexedExtras(s, l, V \ {CHOOSE w \in V : TRUE})

\* The loop of the tree edges at level l, lines 563-567, replayed from s: each
\* iteration takes the edge it found out of the tree edges of level l of V,
\* the vertices of small[l].
RECURSIVE TreeLoopDecreases(_, _, _, _)

TreeIterationDecreases(s, l, small, V, f_id, t) ==
    /\ f_id \in TreeEdgesAt(s, l, V)
    /\ t.ok
    /\ TreeEdgesAt(t, l, V) = TreeEdgesAt(s, l, V) \ {f_id}
    /\ TreeLoopDecreases(t, l, small, V)

TreeLoopDecreases(s, l, small, V) ==
    \/ find_level_i_tree_edge(s, l, small).ret = EMPTY
    \/ TreeIterationDecreases(s, l, small, V, find_level_i_tree_edge(s, l, small).ret,
                              add_level_to_edge(s, find_level_i_tree_edge(s, l, small).ret))

\* The loop of the extra edges at level l, lines 569-611, replayed from s: an
\* iteration returns with the replacement it found, or takes the edge it found
\* out of the extra edges of level l of V and out of their index.
RECURSIVE ExtraLoopDecreases(_, _, _, _)

ExtraIterationDecreases(s, l, small, V, f_id, t) ==
    /\ f_id \in ExtraEdgesAt(s, l, V)
    /\ \/ ~ett_is_connected(Ett(s, l), levels(l, s.edge_info[f_id + 1].e[1]),
                            levels(l, s.edge_info[f_id + 1].e[2]))
       \/ /\ t.ok
          /\ ExtraEdgesAt(t, l, V) = ExtraEdgesAt(s, l, V) \ {f_id}
          /\ IndexedExtras(t, l, V) < IndexedExtras(s, l, V)
          /\ ExtraLoopDecreases(t, l, small, V)

ExtraLoopDecreases(s, l, small, V) ==
    \/ find_level_i_extra_edge(s, l, small).ret = EMPTY
    \/ ExtraIterationDecreases(s, l, small, V, find_level_i_extra_edge(s, l, small).ret,
                               add_level_to_edge(s, find_level_i_extra_edge(s, l, small).ret))

\* The levels of remove_edge from l down, lines 560-611.
RECURSIVE LoopsDecrease(_, _, _, _, _)

LevelDecreased(r, l, cl, u, v) == r.done \/ LoopsDecrease(r.s, l - 1, cl, u, v)

TreeLoopDone(mid, l, cl, u, v) ==
    /\ ExtraLoopDecreases(mid, l, cl.smalls[l + 1], SmallSide(cl, l))
    /\ LevelDecreased(try_extra_edges(mid, l, cl.smalls[l + 1], u, v), l, cl, u, v)

LoopsDecrease(s, l, cl, u, v) ==
    \/ l < 0
    \/ /\ s.ok
       /\ TreeLoopDecreases(s, l, cl.smalls[l + 1], SmallSide(cl, l))
       /\ TreeLoopDone(promote_tree_edges(s, l, cl.smalls[l + 1]), l, cl, u, v)

\* C39: remove_edge terminates: each iteration of the loop of the tree edges
\* of level l strictly decreases the number of tree edges of level l in
\* small[l], and each iteration of the loop of the extra edges of level l
\* returns with a replacement or strictly decreases the number of extra edges
\* of level l at the vertices of small[l].
C39_LoopsDecrease ==
    d2c.ok => \A i \in TreeIds :
                 LoopsDecrease(rem_edge_id(RemovalCut(i).s, i), Len(RemovalCut(i).smalls) - 1,
                               RemovalCut(i), EdgeEnds(i)[1], EdgeEnds(i)[2])

\* A removal whose loops promoted a tree edge and an extra edge before it
\* ended.
C39_Witness ==
    /\ d2c.ok
    /\ \E i \in TreeIds :
          /\ Removal(i).ok
          /\ Promoted(d2c, Removal(i)) \cap TreeIds # {}
          /\ Promoted(d2c, Removal(i)) \cap ExtraIds # {}

\* lc0.root(u) == lc0.root(v): ru is the result of lc0.root(u); ok tells
\* whether both calls complete, same whether they return the same vertex.
RootsCompared(ru, rv) == [ok |-> ru.ok /\ rv.ok, same |-> ru.ret = rv.ret]

RootOfSecond(ru, v) == RootsCompared(ru, lc_0_root(ru.lc, v))

SameLc0Root(u, v) == RootOfSecond(lc_0_root(d2c.lc_0, u), v)

\* C24: after every add_edge / remove_edge / is_in_2core, for all vertices u and
\* v: u and v are connected in the graph of the edges present iff
\* ett[0].is_connected(u, v) iff lc0.root(u) == lc0.root(v).
C24_ThreeViewsAgree ==
    d2c.ok =>
        \A u, v \in SolverNodes :
            /\ (v \in Closure({u}, graph)) <=> is_connected(d2c, u, v)
            /\ SameLc0Root(u, v).ok
            /\ SameLc0Root(u, v).same <=> is_connected(d2c, u, v)


\* ------------------------------------------------ claims on the link cut tree
\* The rooted forest an LCT represents: inside a preferred path the parent of a
\* vertex is its predecessor, and the head of a path hangs from parent[head].
RepParent(l, x) == IF is_first(l.ls, x) THEN l.parent[x + 1] ELSE prev(l.ls, x)

\* The ancestor of x reached after at most n steps towards the root.
RECURSIVE RepUp(_, _, _)
RepUp(l, x, n) ==
    IF n = 0 \/ RepParent(l, x) = EMPTY THEN x ELSE RepUp(l, RepParent(l, x), n - 1)

RepRoot(l, x) == RepUp(l, x, LctN)
RepAncestors(l, x) == {RepUp(l, x, n) : n \in 0..LctN}
RepTree(l, x) == {y \in LctNodes : RepRoot(l, y) = RepRoot(l, x)}
RepSubtree(l, x) == {y \in LctNodes : x \in RepAncestors(l, y)}
RepEdges(l) == {{x, RepParent(l, x)} : x \in {y \in LctNodes : RepParent(l, y) # EMPTY}}
RepAcyclic(l) == \A x \in LctNodes : RepParent(l, RepRoot(l, x)) = EMPTY

\* C11: link(u,v) returns false and leaves every parent relation unchanged when u and
\* v are in the same tree; otherwise it returns true, v becomes a child of u with the
\* whole former tree of v below it (rerooted at v, its edges kept), the tree of u keeps
\* its parent relations, every vertex of either former tree has the former root of u
\* as its root (as derived and as answered by root), and other trees are unchanged.
C11_Step(u, v) ==
    LCTLink(u, v) =>
        LET U == RepTree(lc, u)
            V == RepTree(lc, v)
        IN /\ llog'.some <=> RepRoot(lc, u) # RepRoot(lc, v)
           /\ ~lpanic' /\ RepAcyclic(lc')
           /\ ~llog'.some => \A x \in LctNodes : RepParent(lc', x) = RepParent(lc, x)
           /\ llog'.some =>
                 /\ RepParent(lc', v) = u
                 /\ RepSubtree(lc', v) = V
                 /\ RepEdges(lc') = RepEdges(lc) \cup {{u, v}}
                 /\ \A x \in U \cup V :
                       /\ RepRoot(lc', x) = RepRoot(lc, u)
                       /\ lct_root(lc', x).ret = RepRoot(lc, u)
                 /\ \A x \in LctNodes \ V : RepParent(lc', x) = RepParent(lc, x)
C11_LinkJoins == [][llog'.op = "link" => C11_Step(llog'.u, llog'.v)]_vars

\* A successful link of a deep vertex v (its former tree of three vertices now hangs
\* below it) under a vertex u.
C11_Witness ==
    /\ llog.op = "link" /\ llog.some
    /\ Cardinality(RepSubtree(lc, llog.v)) = 3
    /\ \E x \in LctNodes : RepParent(lc, x) # EMPTY /\ RepParent(lc, x) # llog.v
                           /\ RepParent(lc, RepParent(lc, x)) = llog.v

\* C12: cut(u) returns None exactly when u is the root of its tree, and then leaves
\* every parent relation unchanged; otherwise it returns the parent of u, u becomes
\* the root of a tree made of exactly its former subtree, and the parent of every
\* other vertex is unchanged.
C12_Step(u) ==
    LCTCut(u) =>
        /\ ~llog'.some <=> RepParent(lc, u) = EMPTY
        /\ ~lpanic' /\ RepAcyclic(lc')
        /\ llog'.ret = RepParent(lc, u)
        /\ RepParent(lc', u) = EMPTY
        /\ RepTree(lc', u) = RepSubtree(lc, u)
        /\ \A x \in LctNodes \ {u} : RepParent(lc', x) = RepParent(lc, x)
C12_CutDetaches == [][llog'.op = "cut" => C12_Step(llog'.u)]_vars

\* A cut of a vertex that had a parent and keeps a subtree of two vertices, leaving
\* a tree of two vertices behind.
C12_Witness ==
    /\ llog.op = "cut" /\ llog.some
    /\ Cardinality(RepTree(lc, llog.u)) = 2
    /\ Cardinality(RepTree(lc, llog.ret)) = 2

\* C13: after reroot(u), u is the root of every vertex of its tree (as derived and as
\* answered by root), the undirected edges of the forest are the same, and the
\* parent relations of the other trees are unchanged.
C13_Step(u) ==
    LCTReroot(u) =>
        /\ ~lpanic' /\ RepAcyclic(lc')
        /\ RepTree(lc', u) = RepTree(lc, u)
        /\ \A x \in RepTree(lc, u) : RepRoot(lc', x) = u /\ lct_root(lc', x).ret = u
        /\ RepEdges(lc') = RepEdges(lc)
        /\ \A x \in LctNodes \ RepTree(lc, u) : RepParent(lc', x) = RepParent(lc, x)
C13_RerootMakesRoot == [][llog'.op = "reroot" => C13_Step(llog'.u)]_vars

\* A reroot that made u the root of a tree of four vertices in which some vertex is
\* at depth two and a path of two vertices hangs from another path.
C13_Witness ==
    /\ llog.op = "reroot"
    /\ Cardinality(RepTree(lc, llog.u)) = 4
    /\ RepParent(lc, llog.u) = EMPTY
    /\ \E x \in LctNodes : is_first(lc.ls, x) /\ lc.parent[x + 1] # EMPTY /\ len(lc.ls, x) = 2

\* The lowest common ancestor in the forest of the reference: the common ancestor
\* that has every common ancestor among its own ancestors; EMPTY across trees.
SlowAncestors(u) == Range(path_from_root(slow, u))
CommonAncestors(u, v) == SlowAncestors(u) \cap SlowAncestors(v)
Lca(u, v) ==
    IF CommonAncestors(u, v) = {} THEN EMPTY
    ELSE CHOOSE a \in CommonAncestors(u, v) : CommonAncestors(u, v) \subseteq SlowAncestors(a)

\* C14: after any history of link/cut/reroot/root/lca calls the LCT represents the
\* forest of the SlowLCT driven by the same calls; lca(u,v) is None exactly when u and
\* v are in different trees and otherwise the lowest common ancestor with respect to
\* the current root; root, cut and lca return what the SlowLCT returns.
C14_LcaAgrees ==
    /\ ~lpanic
    /\ \A u \in LctNodes :
          /\ RepParent(lc, u) = (IF slow[u + 1] = u THEN EMPTY ELSE slow[u + 1])
          /\ lct_root(lc, u).ret = slow_root(slow, u)
          /\ lct_cut(lc, u).ret = slow_cut(slow, u).ret
    /\ \A u, v \in LctNodes :
          /\ lct_lca(lc, u, v).ret = slow_lca(slow, u, v)
          /\ lct_lca(lc, u, v).ret = Lca(u, v)
          /\ lct_lca(lc, u, v).ret = EMPTY <=> slow_root(slow, u) # slow_root(slow, v)

\* An lca call answered by a vertex that is neither argument nor the root.
C14_Witness ==
    /\ llog.op = "lca" /\ llog.some
    /\ llog.ret \notin {llog.u, llog.v}
    /\ slow[llog.ret + 1] # llog.ret

\* ------------------------------------ claims on the link cut tree over Treaps
\* The rooted forest an LCT<Treaps> represents, read as for the LCT above.
RepParentTreaps(l, x) == IF treap_is_first(l.t, x) THEN l.parent[x + 1] ELSE treap_prev(l.t, x)

RECURSIVE RepUpTreaps(_, _, _)
RepUpTreaps(l, x, n) ==
    IF n = 0 \/ RepParentTreaps(l, x) = EMPTY THEN x
    ELSE RepUpTreaps(l, RepParentTreaps(l, x), n - 1)

RepRootTreaps(l, x) == RepUpTreaps(l, x, LctTreapsN)
RepAncestorsTreaps(l, x) == {RepUpTreaps(l, x, n) : n \in 0..LctTreapsN}
RepTreeTreaps(l, x) == {y \in LctTreapsNodes : RepRootTreaps(l, y) = RepRootTreaps(l, x)}
RepSubtreeTreaps(l, x) == {y \in LctTreapsNodes : x \in RepAncestorsTreaps(l, y)}
RepEdgesTreaps(l) ==
    {{x, RepParentTreaps(l, x)} : x \in {y \in LctTreapsNodes : RepParentTreaps(l, y) # EMPTY}}
RepAcyclicTreaps(l) == \A x \in LctTreapsNodes : RepParentTreaps(l, RepRootTreaps(l, x)) = EMPTY

\* The forest of the LCT<Treaps> is the forest of the SlowLCT driven by the same calls.
RepIsSlow == \A x \in LctTreapsNodes :
    RepParentTreaps(lc, x) = (IF slow[x + 1] = x THEN EMPTY ELSE slow[x + 1])

\* C11 over LCT<Treaps>: link(u,v) completes; it returns false and leaves every parent
\* relation unchanged when u and v are in the same tree; otherwise it returns true, v
\* becomes a child of u with the whole former tree of v below it, the tree of u keeps
\* its parent relations, every vertex of either former tree has the former root of u
\* as its root, and other trees are unchanged.
C11_StepTreaps(u, v) ==
    LCTTreapsLink(u, v) =>
        /\ ~lpanic'
        /\ llog'.some <=> RepRootTreaps(lc, u) # RepRootTreaps(lc, v)
        /\ RepAcyclicTreaps(lc')
        /\ ~llog'.some => \A x \in LctTreapsNodes : RepParentTreaps(lc', x) = RepParentTreaps(lc, x)
        /\ llog'.some =>
              /\ RepParentTreaps(lc', v) = u
              /\ RepSubtreeTreaps(lc', v) = RepTreeTreaps(lc, v)
              /\ RepEdgesTreaps(lc') = RepEdgesTreaps(lc) \cup {{u, v}}
              /\ \A x \in RepTreeTreaps(lc, u) \cup RepTreeTreaps(lc, v) :
                    RepRootTreaps(lc', x) = RepRootTreaps(lc, u)
              /\ \A x \in LctTreapsNodes \ RepTreeTreaps(lc, v) :
                    RepParentTreaps(lc', x) = RepParentTreaps(lc, x)
C11_LinkJoinsTreaps ==
    [][(llog'.op = "link" /\ RepIsSlow) => C11_StepTreaps(llog'.u, llog'.v)]_vars

\* C12 over LCT<Treaps>: cut(u) completes; it returns None exactly when u is the root
\* of its tree; otherwise it returns the parent of u, u becomes the root of a tree made
\* of exactly its former subtree, and the parent of every other vertex is unchanged.
C12_StepTreaps(u) ==
    LCTTreapsCut(u) =>
        /\ ~lpanic'
        /\ ~llog'.some <=> RepParentTreaps(lc, u) = EMPTY
        /\ RepAcyclicTreaps(lc')
        /\ llog'.ret = RepParentTreaps(lc, u)
        /\ RepParentTreaps(lc', u) = EMPTY
        /\ RepTreeTreaps(lc', u) = RepSubtreeTreaps(lc, u)
        /\ \A x \in LctTreapsNodes \ {u} : RepParentTreaps(lc', x) = RepParentTreaps(lc, x)
C12_CutDetachesTreaps == [][(llog'.op = "cut" /\ RepIsSlow) => C12_StepTreaps(llog'.u)]_vars

\* C13 over LCT<Treaps>: reroot(u) completes, also when earlier reroots left pending
\* reversals in the paths; after it u is the root of every vertex of its tree, the
\* undirected edges of the forest are the same, and the parent relations of the other
\* trees are unchanged.
C13_StepTreaps(u) ==
    LCTTreapsReroot(u) =>
        /\ ~lpanic'
        /\ RepAcyclicTreaps(lc')
        /\ RepTreeTreaps(lc', u) = RepTreeTreaps(lc, u)
        /\ \A x \in RepTreeTreaps(lc, u) : RepRootTreaps(lc', x) = u
        /\ RepEdgesTreaps(lc') = RepEdgesTreaps(lc)
        /\ \A x \in LctTreapsNodes \ RepTreeTreaps(lc, u) :
              RepParentTreaps(lc', x) = RepParentTreaps(lc, x)
C13_RerootMakesRootTreaps ==
    [][(llog'.op = "reroot" /\ RepIsSlow) => C13_StepTreaps(llog'.u)]_vars

\* C14 over LCT<Treaps>: as long as the forest of the LCT is the forest of the SlowLCT
\* driven by the same calls, root, cut and lca return what the SlowLCT returns, and
\* lca(u,v) is None exactly when u and v are in different trees.
C14_LcaAgreesTreaps ==
    (~lpanic /\ RepIsSlow) =>
        /\ \A u \in LctTreapsNodes :
              /\ lct_root_treaps(lc, u).ok /\ lct_cut_treaps(lc, u).ok
              /\ lct_root_treaps(lc, u).ret = slow_root(slow, u)
              /\ lct_cut_treaps(lc, u).ret = slow_cut(slow, u).ret
        /\ \A u, v \in LctTreapsNodes :
              /\ lct_lca_treaps(lc, u, v).ok
              /\ lct_lca_treaps(lc, u, v).ret = slow_lca(slow, u, v)


\* ------------------------------------------- claims on the replacement edge
\* The parent of x in the rooted forest lc_0 represents.
Lc0Parent(l, x) == IF over_treaps(l) THEN RepParentTreaps(l, x) ELSE RepParent(l, x)

Lc0HasEdge(l, a, b) == Lc0Parent(l, a) = b \/ Lc0Parent(l, b) = a

\* The extra edges of d2c that are tree edges in the solver t: the replacement
\* found by the remove_edge that leads to t.
Replacements(t) == {j \in ExtraIds \cap LiveIdsOf(t) : ~is_extra(t.edge_info[j + 1])}

\* The extra edges of level l at vertex w that the call leading to t promoted.
PromotedExtrasAt(t, w, l) ==
    {x \in Promoted(d2c, t) \cap ExtraIds :
        EdgeLevel(x) = l /\ w \in {EdgeEnds(x)[1], EdgeEnds(x)[2]}}

\* remove_edge of the tree edge i = (u, v) replaced it by the extra edge
\* j = (a, b) of level l; cl is the solver after the disconnects, t on return.
Replaced(i, j, l, a, b, cl, t) ==
    /\ l <= EdgeLevel(i)
    /\ \A k \in 0..l :
          /\ ~ett_is_connected(Ett(cl.s, k), levels(k, a), levels(k, b))
          /\ ett_is_connected(Ett(t, k), levels(k, a), levels(k, b))
          /\ ett_is_connected(Ett(t, k), levels(k, EdgeEnds(i)[1]), levels(k, EdgeEnds(i)[2]))
    /\ t.edge_info[j + 1].level = l
    /\ Len(t.edge_info[j + 1].levels.v) = l + 1
    /\ \A p \in DOMAIN t.u_level_to_extras : j \notin t.u_level_to_extras[p]
    /\ \A w \in {a, b} :
          /\ ett_data(Ett(t, l), levels(l, w)).data.extra_edges =
                 NodeData(l, w).extra_edges - 1 - Cardinality(PromotedExtrasAt(t, w, l))
          /\ ett_data(Ett(t, 0), levels(0, w)).data.any_extra_edges =
                 NodeData(0, w).any_extra_edges - 1
    /\ Lc0HasEdge(t.lc_0, a, b)

\* The ends of the tree edge i stay connected in the graph without it: the
\* search of remove_edge has an extra edge to find.
HasReplacement(i) ==
    EdgeEnds(i)[2] \in Closure({EdgeEnds(i)[1]}, graph \ {Norm(EdgeEnds(i)[1], EdgeEnds(i)[2])})

\* The call returns, and every extra edge it turned into a tree edge is as stated.
RemovalReplaces(i, cl, t) ==
    /\ t.ok
    /\ \A j \in Replacements(t) :
          Replaced(i, j, EdgeLevel(j), EdgeEnds(j)[1], EdgeEnds(j)[2], cl, t)

\* C30: when remove_edge(u, v) of a tree edge finds at level l an extra edge
\* (a, b) joining two level-l components, a and b are disconnected in
\* ett[0..l] before the reconnection, and on return u and v (and a and b) are
\* connected in ett[0..l], (a, b) is a tree edge of level l with l + 1
\* EdgeRefs, it is in no set of extras_index, the counters of a and b are
\* decremented, and lc0 has the edge a - b.
C30_ReplacementEdge ==
    d2c.ok => \A i \in TreeIds :
                 (RemovalCut(i).s.ok /\ HasReplacement(i)) =>
                     RemovalReplaces(i, RemovalCut(i), Removal(i))

\* The undirected edges of the forest lc_0 represents, and the tree edges of
\* the solver (every tree edge is in ett[0]).
Lc0Edges(s) ==
    {Norm(x, Lc0Parent(s.lc_0, x)) :
        x \in {y \in 0..(Len(s.lc_0.parent) - 1) : Lc0Parent(s.lc_0, y) # EMPTY}}

TreeEdgesOf(s) ==
    {Norm(s.edge_info[j + 1].e[1], s.edge_info[j + 1].e[2]) :
        j \in {k \in LiveIdsOf(s) : ~is_extra(s.edge_info[k + 1])}}

\* No assertion of add_edge or remove_edge fails from the current state.
CallsComplete ==
    /\ \A u, v \in SolverNodes : add_edge(d2c, u, v).s.ok
    /\ \A i \in LiveIds : Removal(i).ok

\* C32: the undirected edge set of lc0 equals the set of tree edges of ett[0],
\* so the assertions on lc0 never fail: lc0.link(u, v) is true in add_edge when
\* the connect succeeded, lc0.cut(v) after lc0.reroot(u) is u in remove_edge of
\* a tree edge, and lc0.link(a, b) is true for the replacement edge.
C32_Lc0IsTheForest == d2c.ok => Lc0Edges(d2c) = TreeEdgesOf(d2c) /\ CallsComplete

\* The ancestors of x, x included, in the forest lc_0 represents, and the
\* lowest common ancestor of a and b (EMPTY when they have none).
RECURSIVE Lc0Up(_, _, _)
Lc0Up(l, x, n) ==
    IF n = 0 \/ Lc0Parent(l, x) = EMPTY THEN x ELSE Lc0Up(l, Lc0Parent(l, x), n - 1)

Lc0Ancestors(l, x) == {Lc0Up(l, x, n) : n \in 0..Len(l.parent)}

Lc0Lca(l, a, b) ==
    IF \E c \in Lc0Ancestors(l, a) \cap Lc0Ancestors(l, b) :
           Lc0Ancestors(l, a) \cap Lc0Ancestors(l, b) \subseteq Lc0Ancestors(l, c)
    THEN CHOOSE c \in Lc0Ancestors(l, a) \cap Lc0Ancestors(l, b) :
             Lc0Ancestors(l, a) \cap Lc0Ancestors(l, b) \subseteq Lc0Ancestors(l, c)
    ELSE EMPTY

\* The vertices with a live extra edge, of any level, in the solver s.
HasExtra(s, w) ==
    \E j \in LiveIdsOf(s) : is_extra(s.edge_info[j + 1]) /\ w \in {s.edge_info[j + 1].e[1],
                                                                 s.edge_info[j + 1].e[2]}

\* The positions of the tour q of ett[0] that hold a vertex with an extra edge.
ExtraPositions(s, q) ==
    {k \in DOMAIN q : /\ ett_data(Ett(s, 0), q[k]).node
                      /\ HasExtra(s, ett_data(Ett(s, 0), q[k]).data.idx)}

SetMax(S) == CHOOSE x \in S : \A y \in S : y <= x

TourVertex(s, q, k) == ett_data(Ett(s, 0), q[k]).data.idx

\* The answer the claim gives for u: q is the tour of u, K its positions with
\* an extra edge.
CoreExpected(s, u, q, K) ==
    IF K = {} THEN FALSE
    ELSE IF TourVertex(s, q, SetMin(K)) = u THEN TRUE
    ELSE u = Lc0Lca(s.lc_0, TourVertex(s, q, SetMin(K)), TourVertex(s, q, SetMax(K)))

\* r is the result of is_in_2core(u).
CoreAnswered(u, r) ==
    /\ r.s.ok
    /\ is_first(Ett(r.s, 0).ls, levels(0, u))
    /\ Lc0Parent(r.s.lc_0, u) = EMPTY
    /\ r.ret = CoreExpected(r.s, u, list(Ett(r.s, 0).ls, levels(0, u)),
                            ExtraPositions(r.s, list(Ett(r.s, 0).ls, levels(0, u))))

\* C34: is_in_2core(u) reroots ett[0] and lc0 at u; with first and last the
\* first and last vertices of the tour of u that have an extra edge of any
\* level, it returns false when there is none, true when first is u, and
\* otherwise true exactly when u is the lowest common ancestor of first and
\* last in lc0 rooted at u.
C34_CoreAnswer == d2c.ok => \A u \in SolverNodes : CoreAnswered(u, is_in_2core(d2c, u))

\* The forest of level 0 of t is that of s up to the choice of the roots:
\* the same payloads, and every tour a rotation of a tour of s.
SameUpToRoots(s, t) ==
    /\ Ett(t, 0).d = Ett(s, 0).d
    /\ Cardinality(Ett(t, 0).ls) = Cardinality(Ett(s, 0).ls)
    /\ \A x \in Ett(t, 0).ls : \E y \in Ett(s, 0).ls : \E k \in 0..(Len(y) - 1) : x = Rotated(y, k)

\* The queries answer on t as they do on s.
SameAnswers(s, t) ==
    /\ \A a, b \in SolverNodes : is_connected(t, a, b) = is_connected(s, a, b)
    /\ \A a \in SolverNodes : is_in_1core(t, a) = is_in_1core(s, a)
    /\ \A a \in SolverNodes :
          /\ is_in_2core(t, a).s.ok = is_in_2core(s, a).s.ok
          /\ is_in_2core(t, a).ret = is_in_2core(s, a).ret

\* is_in_2core took the solver from s to t.
QueryFrames(s, t) ==
    /\ t.ok
    /\ t.e_to_id = s.e_to_id
    /\ t.edge_info = s.edge_info
    /\ t.u_level_to_extras = s.u_level_to_extras
    /\ \A k \in 1..(NumLevels(s) - 1) : Ett(t, k) = Ett(s, k)
    /\ SameUpToRoots(s, t)
    /\ Lc0Edges(t) = Lc0Edges(s)
    /\ SameAnswers(s, t)

\* C38: is_in_2core(u) changes only the choice of the roots of ett[0] and of
\* lc0: the live edges, their levels and tree or extra status, the undirected
\* tree edges of every level and of lc0, extras_index and the counters are the
\* same, and so is every later answer of is_connected, is_in_1core, is_in_2core.
C38_QueryFrames == d2c.ok => \A u \in SolverNodes : QueryFrames(d2c, is_in_2core(d2c, u).s)

\* ------------------------------------------------------- claims on the lists
\* The elements below u in iteration order, pending reversal flags applied.
RECURSIVE TreapInorder(_, _, _)
TreapInorder(t, u, flipped) ==
  IF u = EMPTY THEN <<>>
  ELSE TreapInorder(t, treap_child(t, u, flipped)[1], treap_flip(t[u + 1], flipped))
       \o <<u>> \o
       TreapInorder(t, treap_child(t, u, flipped)[2], treap_flip(t[u + 1], flipped))

\* The list of u, first element first.
TreapList(t, u) == TreapInorder(t, treap_root(t, u), FALSE)

\* h is an element of its list: the list finds h at the place order gives.
Present(t, h) ==
  /\ h < treap_total_size(t)
  /\ treap_find_kth(t, h, treap_order(t, h)) = h

\* The treap t2 holds every element of tr, with the data it has in tr, except
\* the data of `mutated`.
HandlesKept(t2, mutated) ==
  /\ treap_total_size(t2) >= treap_total_size(tr)
  /\ \A h \in Handles :
        /\ Present(t2, h)
        /\ h # mutated => treap_data(t2, h) = treap_data(tr, h)

Created(c) ==
  /\ c.ret = treap_total_size(tr)
  /\ treap_total_size(c.t) = treap_total_size(tr) + 1
  /\ HandlesKept(c.t, EMPTY)
  /\ Present(c.t, c.ret)

Mutated(t2, u, data) ==
  /\ treap_total_size(t2) = treap_total_size(tr)
  /\ HandlesKept(t2, u)
  /\ treap_data(t2, u) = data

Kept(t2) ==
  /\ treap_total_size(t2) = treap_total_size(tr)
  /\ HandlesKept(t2, EMPTY)

\* C15: create returns total_size() as it was before the call, so the handles are
\* 0, 1, 2, ... in creation order and none is reused; concat, split, reverse and
\* mutate_data of another element neither change data(h) nor remove h.
C15_HandlesStable ==
  /\ \A priority \in Priorities :
        Created(treap_create(tr, treap_total_size(tr) + 1, priority))
  /\ \A u, v \in Handles : Kept(treap_concat(tr, u, v).t)
  /\ \A u \in Handles : \A r \in 0..treap_len(tr, u) : \A l \in 0..r :
        Kept(treap_split_lr(tr, u, l, r).t)
  /\ \A u \in Handles : Kept(treap_reverse(tr, u))
  /\ \A u \in Handles : \A data \in Digits :
        Mutated(treap_mutate_data(tr, u, data), u, data)

\* All elements are created, one of them was rewritten and another one not, a
\* reversal is pending and the last call was a split.
C15_Witness ==
  /\ treap_total_size(tr) = ListN
  /\ tlog = "split"
  /\ \E h \in Handles : treap_data(tr, h) = h + 1
  /\ \E h \in Handles : treap_data(tr, h) # h + 1
  /\ \E h \in Handles : tr[h + 1].flip_subtree
  /\ \E h \in Handles : treap_len(tr, h) >= 2

\* The list of root h, the empty list for EMPTY.
PartList(t, h) == IF h = EMPTY THEN <<>> ELSE TreapList(t, h)

\* s is the result of split_lr on the list x cut at l and r.
SplitParts(s, x, l, r) ==
  /\ PartList(s.t, s.ret[1]) = SubSeq(x, 1, l)
  /\ PartList(s.t, s.ret[2]) = SubSeq(x, l + 1, r)
  /\ PartList(s.t, s.ret[3]) = SubSeq(x, r + 1, Len(x))
  /\ \A i \in 1..3 : s.ret[i] # EMPTY => treap_is_root(s.t, s.ret[i])

\* c is the result of concatenating the three parts again.
SplitJoined(c, x, agg) ==
  /\ PartList(c.t, c.ret) = x
  /\ treap_total_agg(c.t, c.ret) = agg

SplitRoundTrip(s, x, agg) ==
  SplitJoined(treap_concat(treap_concat(s.t, s.ret[1], s.ret[2]).t,
                           treap_concat(s.t, s.ret[1], s.ret[2]).ret, s.ret[3]),
              x, agg)

\* C16: split(h, l..r) with 0 <= l <= r <= len cuts the list x_0 .. x_(len-1) of h,
\* read with its pending reversals, into the lists x_0 .. x_(l-1), x_l .. x_(r-1)
\* and x_r .. x_(len-1), each in that order, and returns their roots (EMPTY for an
\* empty part); concatenating the three parts gives the list back, with the same
\* total_agg.
C16_SplitParts ==
  \A u \in Handles : \A r \in 0..treap_len(tr, u) : \A l \in 0..r :
    /\ SplitParts(treap_split_lr(tr, u, l, r), TreapList(tr, u), l, r)
    /\ SplitRoundTrip(treap_split_lr(tr, u, l, r), TreapList(tr, u),
                      treap_total_agg(tr, u))

\* t2 is tr after reverse(u): every element x of the list of u is mirrored, and
\* the queries by position follow.
Mirrored(t2, u, x) ==
  /\ treap_order(t2, x) = treap_len(tr, u) - 1 - treap_order(tr, x)
  /\ treap_find_kth(t2, u, treap_order(t2, x)) = x
  /\ treap_next(t2, x) = treap_prev(tr, x)
  /\ treap_prev(t2, x) = treap_next(tr, x)
  /\ treap_is_first(t2, x) = treap_is_last(tr, x)
  /\ treap_is_last(t2, x) = treap_is_first(tr, x)

Reversed(t2, u) ==
  /\ treap_len(t2, u) = treap_len(tr, u)
  /\ TreapList(t2, u) = Rev(TreapList(tr, u))
  /\ treap_first(t2, u) = treap_find_kth(tr, u, treap_len(tr, u) - 1)
  /\ \A x \in Handles :
        IF treap_on_same_list(tr, u, x) THEN Mirrored(t2, u, x)
        ELSE /\ TreapList(t2, x) = TreapList(tr, x)
             /\ treap_order(t2, x) = treap_order(tr, x)
             /\ treap_total_agg(t2, x) = treap_total_agg(tr, x)

ReversedTwice(t3) ==
  \A x \in Handles :
    /\ treap_order(t3, x) = treap_order(tr, x)
    /\ TreapList(t3, x) = TreapList(tr, x)
    /\ treap_total_agg(t3, x) = treap_total_agg(tr, x)
    /\ \A r \in 0..treap_len(tr, x) : \A l \in 0..r :
          treap_range_agg_lr(t3, x, l, r) = treap_range_agg_lr(tr, x, l, r)

\* C17: reverse(h) turns order(x) into len - 1 - order(x) for every element x of
\* the list of h; find_kth, first, next and prev follow the new order; every
\* other list is left as it was; reversing twice gives back the order and the
\* aggregates.
C17_ReverseMirrors ==
  \A u \in Handles :
    /\ Reversed(treap_reverse(tr, u), u)
    /\ ReversedTwice(treap_reverse(treap_reverse(tr, u), u))

\* A list of three elements was reversed while another reversal was pending
\* below its root.
C17_Witness ==
  /\ tlog = "reverse"
  /\ \E h \in Handles :
        /\ treap_len(tr, h) = ListN
        /\ treap_is_root(tr, h)
        /\ tr[h + 1].flip_subtree
        /\ \E x \in Handles : x # h /\ tr[x + 1].flip_subtree

\* Left-to-right fold of merge over Ag::from(data) of the elements s[i .. j].
RECURSIVE FoldData(_, _, _, _, _)
FoldData(t, s, i, j, agg) ==
  IF i > j THEN agg
  ELSE FoldData(t, s, i + 1, j, DigitMerge(agg, DigitFrom(treap_data(t, s[i]))))

RangeFolded(x, u, l, r) ==
  treap_range_agg_lr(tr, u, l, r) = FoldData(tr, x, l + 1, r, DigitDefault)

RangeMirrored(t2, u, l, r, n) ==
  treap_range_agg_lr(t2, u, l, r) = DigitReverse(treap_range_agg_lr(tr, u, n - r, n - l))

\* C18: range_agg(h, l..r) is the left-to-right fold of merge over Ag::from(data)
\* of the elements at the positions l .. r-1 of the list of h, for the
\* non-commutative AggDigit too; total_agg is range_agg over the whole list; and
\* range_agg after reverse(h) is Ag::reverse of range_agg over the mirrored window
\* before it.
C18_RangeAggFolds ==
  \A u \in Handles :
    /\ \A k \in 0..(treap_len(tr, u) - 1) :
          treap_find_kth(tr, u, k) = TreapList(tr, u)[k + 1]
    /\ treap_total_agg(tr, u) = treap_range_agg_lr(tr, u, 0, treap_len(tr, u))
    /\ \A r \in 0..treap_len(tr, u) : \A l \in 0..r :
          /\ RangeFolded(TreapList(tr, u), u, l, r)
          /\ RangeMirrored(treap_reverse(tr, u), u, l, r, treap_len(tr, u))

\* A list of three elements with a rewritten digit and a reversal pending, right
\* after mutate_data.
C18_Witness ==
  /\ tlog = "mutate_data"
  /\ \E h \in Handles :
        /\ treap_len(tr, h) = ListN
        /\ \E x \in Handles : tr[x + 1].flip_subtree
        /\ \E x \in Handles : treap_data(tr, x) # x + 1
        /\ treap_total_agg(tr, h).number # DigitReverse(treap_total_agg(tr, h)).number

Directions == {"Found", "NotFound", "Left", "Right"}
\* The answers of a strategy, call by call; no descent is deeper than ListN.
Scripts == [1..ListN -> Directions]

\* The calls i, i + 1, ... of a search see the window x[a .. b] of the list x and
\* its narrowing by the answers of the script.
RECURSIVE SearchDataOk(_, _, _, _, _, _)
SearchDataAt(x, calls, script, i, a, b, p) ==
  /\ a <= p /\ p <= b
  /\ calls[i].current_data = treap_data(tr, calls[i].current)
  /\ calls[i].left_agg = FoldData(tr, x, a, p - 1, DigitDefault)
  /\ calls[i].right_agg = FoldData(tr, x, p + 1, b, DigitDefault)
  /\ SearchDataOk(x, calls, script, i + 1,
                  IF script[i] = "Left" THEN a ELSE p + 1,
                  IF script[i] = "Left" THEN p - 1 ELSE b)

SearchDataOk(x, calls, script, i, a, b) ==
  IF i > Len(calls) THEN TRUE
  ELSE SearchDataAt(x, calls, script, i, a, b, treap_order(tr, calls[i].current) + 1)

SearchReturns(f, script) ==
  /\ Len(f.calls) >= 1
  /\ \A i \in 1..(Len(f.calls) - 1) : script[i] \in {"Left", "Right"}
  /\ f.ret = IF script[Len(f.calls)] = "Found" THEN f.calls[Len(f.calls)].current
             ELSE EMPTY

\* C19: every call of the strategy of find_element gets as current_data the data
\* of an element of the subtree the descent is in, and as left_agg and right_agg
\* the folds, in iteration order with the pending reversals applied, of the
\* elements of that subtree before and after it; the search returns the current
\* element on Found and EMPTY on NotFound or when the chosen side is empty.
C19_SearchData ==
  \A u \in Handles : \A script \in Scripts :
    /\ SearchDataOk(TreapList(tr, u), treap_find_element(tr, u, script).calls, script,
                    1, 1, treap_len(tr, u))
    /\ SearchReturns(treap_find_element(tr, u, script), script)

\* C20: the treap agrees with SlowLists after the same operations: the same
\* partition of the handles into lists (root(u) = root(v) exactly for two
\* elements of one list, and is_root(root(u))), the same order in every list, and
\* the same len, data, total_agg and range_agg.
C20_AgreesWithSlow == compare_with_slow(tr, sl)

====
